---- MODULE Spec2Model ----
(***************************************************************************)
(* The authorization core of the multi-tenant table backend               *)
(* (backend/app/main.py): memberships, tenant roles, per-table and        *)
(* per-view permission rows, the access gates built on them, and the      *)
(* request handlers that read or change them.                             *)
(*                                                                         *)
(* Every request is made with a credential of tenant CurrentTenant.  One  *)
(* action models one HTTP handler, from the dependency that resolves the  *)
(* caller's tenant down to the commit; resp holds the request just served *)
(* and its response, with the audit rows the request appended.            *)
(***************************************************************************)
EXTENDS Integers, Sequences, FiniteSets, TLC

\* ---------------------------------------------------------------- bounds

\* Longest "items" list of a table or view permission payload.
MaxItems == 2

\* Longest "items" list of a button permission payload.
MaxButtonItems == 1

\* Most fields, and most records, in one import payload.
MaxImportFields == 2

MaxImportRecords == 1

\* Longest list of sort keys a query carries.
MaxSortKeys == 2

\* Longest list of filters a query carries.
MaxFilters == 2

\* Largest start offset, of either sign, a cursor names.
MaxOffset == 4

\* ------------------------------------------------------------- universe

CurrentTenant == "tA"

Users == {"u1", "u2", "u3"}

\* Tables are created by the seed only; no handler adds or removes one.
\* t1 and t2 belong to the caller's tenant, tX to another tenant.
Tables == {"t1", "t2", "tX"}

TableTenant == [t \in Tables |-> IF t = "tX" THEN "tB" ELSE "tA"]

OwnTables == {t \in Tables : TableTenant[t] = CurrentTenant}

\* View, record and field ids are primary keys: an id names one row, of one
\* table, for its whole life.  The pools are the ids _next_id can hand out.
ViewPool == {"v1", "v2", "v3", "vX"}

ViewTable == [v \in ViewPool |-> CASE v = "v3" -> "t2" [] v = "vX" -> "tX" [] OTHER -> "t1"]

RecordPool == {"r1", "r2", "rX", "q1", "q2", "q3"}

RecordTable ==
    [r \in RecordPool |->
        CASE r = "rX" -> "tX" [] r \in {"q1", "q2", "q3"} -> "t2" [] OTHER -> "t1"]

FieldPool == {"f1", "f2", "f3", "fX", "fName", "fScore", "fMember"}

FieldTable ==
    [f \in FieldPool |->
        CASE f = "fX" -> "tX" [] f \in {"fName", "fScore", "fMember"} -> "t2" [] OTHER -> "t1"]

\* FieldModel.type, fixed when the field is created (no handler changes it):
\* t2 is the scoring table [name:text, score:number] with a member column.
FieldType ==
    [f \in FieldPool |->
        CASE f = "fScore" -> "number" [] f = "fMember" -> "member" [] OTHER -> "text"]

\* Ids a request may name that no row of any tenant carries.
GhostTable == "t0"

GhostView == "v0"

GhostRecord == "r0"

GhostField == "f0"

\* An absent row: a record no stored row equals.
NoRow == [absent |-> "row"]

NoMember == [absent |-> "membership"]

NoRole == [absent |-> "role"]

NoView == "NoView"

NoTable == "NoTable"

\* --------------------------------------------------------- JSON values
\* A value_json, a filter's expected value or a sort key: None, an integer,
\* a string (the sequence of its characters) or a list.  One record shape
\* for all of them, so that any two values can be compared with =, as
\* Python's == compares them.
Null == [t |-> "null", n |-> 0, s |-> <<>>, l |-> <<>>]

Num(k) == [t |-> "num", n |-> k, s |-> <<>>, l |-> <<>>]

Str(cs) == [t |-> "str", n |-> 0, s |-> cs, l |-> <<>>]

List(vs) == [t |-> "list", n |-> 0, s |-> <<>>, l |-> vs]

\* A user id as a JSON string: the id is one opaque character.
UserIdValue(u) == Str(<<u>>)

\* The characters of the modelled strings in code point order, which is the
\* order Python compares them in.
CodePoints ==
    <<" ", "'", ",", "-", "0", "1", "2", "3", "4", "5", "6", "7", "8", "9",
      "A", "B", "N", "[", "]", "a", "b", "e", "n", "o">>

CodePoint(c) == CHOOSE i \in 1 .. Len(CodePoints) : CodePoints[i] = c

\* str.lower(), a character at a time
LowerChar(c) ==
    CASE c = "A" -> "a" [] c = "B" -> "b" [] c = "N" -> "n" [] OTHER -> c

Lower(cs) == [i \in 1 .. Len(cs) |-> LowerChar(cs[i])]

\* a < b on strings: the first differing character decides, a proper prefix
\* is smaller.
StrLess(a, b) ==
    \E i \in 1 .. Len(b) :
        /\ \A j \in 1 .. (i - 1) : j <= Len(a) /\ a[j] = b[j]
        /\ \/ i = Len(a) + 1
           \/ i <= Len(a) /\ CodePoint(a[i]) < CodePoint(b[i])

\* needle in hay, on strings
Contains(needle, hay) ==
    \E i \in 0 .. (Len(hay) - Len(needle)) :
        SubSeq(hay, i + 1, i + Len(needle)) = needle

DecimalDigits == <<"0", "1", "2", "3", "4", "5", "6", "7", "8", "9">>

RECURSIVE StrOfNat(_)
StrOfNat(k) ==
    IF k < 10 THEN <<DecimalDigits[k + 1]>>
    ELSE StrOfNat(k \div 10) \o <<DecimalDigits[(k % 10) + 1]>>

StrOfInt(k) == IF k < 0 THEN <<"-">> \o StrOfNat(0 - k) ELSE StrOfNat(k)

RECURSIVE PyRepr(_)
RECURSIVE PyReprItems(_)
\* repr(value): what str() shows of a value inside a list
PyRepr(value) ==
    CASE value.t = "null" -> <<"N", "o", "n", "e">>
      [] value.t = "num" -> StrOfInt(value.n)
      [] value.t = "str" -> <<"'">> \o value.s \o <<"'">>
      [] OTHER -> <<"[">> \o PyReprItems(value.l) \o <<"]">>

PyReprItems(vs) ==
    IF vs = <<>> THEN <<>>
    ELSE IF Len(vs) = 1 THEN PyRepr(vs[1])
    ELSE PyRepr(vs[1]) \o <<",", " ">> \o PyReprItems(Tail(vs))

\* str(value)
PyStr(value) == IF value.t = "str" THEN value.s ELSE PyRepr(value)

\* bool(value) is False: None, 0, "" and []
Falsy(value) == value \in {Null, Num(0), Str(<<>>), List(<<>>)}

\* value or ""
OrEmpty(value) == IF Falsy(value) THEN Str(<<>>) ELSE value

ButtonKeys ==
    {"can_create_record", "can_delete_record", "can_import_records",
     "can_export_records", "can_manage_filters", "can_manage_sorts"}

\* Role keys a tenant may hold: the built-in ones and one custom key.
RoleKeys == {"member", "admin", "project_manager", "developer", "implementer", "qa"}

VARIABLES
    memberships,    \* memberships[u]: the caller tenant's MembershipModel row of u, or NoMember
    roles,          \* roles[k]: the tenant's TenantRoleModel row with key k, or NoRole
    tablePerms,     \* tablePerms[t][u]: TablePermissionModel row, or NoRow
    viewPerms,      \* viewPerms[v][u]: ViewPermissionModel row, or NoRow
    views,          \* ids of the ViewModel rows that exist (all tenants)
    records,        \* ids of the RecordModel rows that exist (all tenants)
    fields,         \* ids of the FieldModel rows that exist (all tenants)
    recordValues,   \* recordValues[r][f]: value_json of the RecordValueModel row, or Null
    inflight,       \* inflight[i]: what request i has read and not yet committed, or NoInflight
    resp            \* the last request and its response

db == <<memberships, roles, tablePerms, viewPerms, views, records, fields, recordValues>>

vars == <<memberships, roles, tablePerms, viewPerms, views, records, fields, recordValues,
          inflight, resp>>

\* ------------------------------------------------------------ row shapes

\* TablePermissionModel(...) built without button values: the column defaults.
NewTablePermission(can_read, can_write) ==
    [can_read |-> can_read, can_write |-> can_write,
     can_create_record |-> TRUE, can_delete_record |-> TRUE,
     can_import_records |-> TRUE, can_export_records |-> TRUE,
     can_manage_filters |-> TRUE, can_manage_sorts |-> TRUE]

NewViewPermission(can_read, can_write) ==
    [can_read |-> can_read, can_write |-> can_write]

\* _ensure_builtin_roles: the five built-in non-owner roles.
BuiltinRole(key) ==
    CASE key = "member" ->
           [can_manage_members |-> FALSE, can_manage_permissions |-> FALSE,
            default_table_can_read |-> TRUE, default_table_can_write |-> FALSE]
      [] key \in {"admin", "project_manager"} ->
           [can_manage_members |-> TRUE, can_manage_permissions |-> TRUE,
            default_table_can_read |-> TRUE, default_table_can_write |-> TRUE]
      [] OTHER ->
           [can_manage_members |-> FALSE, can_manage_permissions |-> FALSE,
            default_table_can_read |-> TRUE, default_table_can_write |-> TRUE]

\* ---------------------------------------------------------- audit, replies

AuditRow(action, result, u, rtype, rid, detail) ==
    [action |-> action, result |-> result, user_id |-> u,
     resource_type |-> rtype, resource_id |-> rid, detail |-> detail]

\* _audit_cross_tenant_access
AuditCrossTenantAccess(u, rtype, rid) ==
    AuditRow("cross_tenant_access", "denied", u, rtype, rid, "tenant_scope_violation")

\* The outcome of a gate: HTTP status, detail, and the audit rows it wrote.
Ok == [status |-> 200, detail |-> "ok", audit |-> <<>>]

Deny(status, detail, audit) == [status |-> status, detail |-> detail, audit |-> audit]

\* Gates run in program order; the first that raises ends the request.
AndThen(g, h) == IF g.status = 200 THEN h ELSE g

Reply(op, u, target, view, g, data) ==
    [op |-> op, user |-> u, target |-> target, view |-> view,
     status |-> g.status, detail |-> g.detail, audit |-> g.audit, data |-> data]

\* ------------------------------------------------------------------ gates

\* role_map.get(key) / the TenantRoleModel lookup by key
RoleMapGet(rs, key) == IF key \in RoleKeys THEN rs[key] ELSE NoRole

\* _get_membership_role
GetMembershipRole(u) == IF memberships[u] = NoMember THEN "none" ELSE memberships[u].role

IsOwner(u) == GetMembershipRole(u) = "owner"

\* get_current_tenant: the credential's tenant must hold a membership of the caller.
GetCurrentTenant(u) ==
    IF memberships[u] = NoMember THEN Deny(403, "no_tenant_access", <<>>) ELSE Ok

\* _ensure_manage_table_permissions_allowed
EnsureManageTablePermissionsAllowed(u) ==
    IF memberships[u] = NoMember THEN Deny(403, "no_tenant_permission", <<>>)
    ELSE IF memberships[u].role = "owner" THEN Ok
    ELSE IF /\ RoleMapGet(roles, memberships[u].role_key) # NoRole
            /\ RoleMapGet(roles, memberships[u].role_key).can_manage_permissions
         THEN Ok
    ELSE Deny(403, "no_manage_table_permission", <<>>)

\* _ensure_table_exists
EnsureTableExists(u, t) ==
    IF t \in Tables /\ TableTenant[t] = CurrentTenant THEN Ok
    ELSE Deny(404, "table_not_found",
              IF t \in Tables THEN <<AuditCrossTenantAccess(u, "table", t)>> ELSE <<>>)

\* A table gate where any granting flag opens both read and write.
TableRowGrantsAnyFlag(permission, access) ==
    /\ permission # NoRow
    /\ (permission.can_read \/ permission.can_write)

\* The decision of _ensure_table_access on the stored row.
TableRowGrants(permission, access) ==
    /\ permission # NoRow
    /\ IF access = "write" THEN permission.can_write
       ELSE permission.can_read \/ permission.can_write

\* detail=f"required={access}"
RequiredDetail(access) == IF access = "write" THEN "required=write" ELSE "required=read"

\* _ensure_table_access
EnsureTableAccess(u, t, access) ==
    AndThen(EnsureTableExists(u, t),
        IF GetMembershipRole(u) = "owner" THEN Ok
        ELSE IF TableRowGrants(tablePerms[t][u], access) THEN Ok
        ELSE Deny(403, "no_table_access",
                  <<AuditRow("table_permission_denied", "denied", u, "table", t,
                             RequiredDetail(access))>>))

\* A button gate that a stored row opens whatever the flag says.
EnsureTableButtonPermissionAnyRow(u, t, button_key) ==
    IF GetMembershipRole(u) = "owner" THEN Ok
    ELSE IF tablePerms[t][u] = NoRow THEN Deny(403, "missing_button_config", <<>>)
    ELSE Ok

\* A button gate that reads the stored row of every caller, the owner's too.
EnsureTableButtonPermissionByRow(u, t, button_key) ==
    IF tablePerms[t][u] = NoRow THEN Deny(403, "missing_button_config", <<>>)
    ELSE IF tablePerms[t][u][button_key] THEN Ok
    ELSE Deny(403, "no_table_button_permission",
              <<AuditRow("table_button_permission_denied", "denied", u, "table", t,
                         button_key)>>)

\* _ensure_table_button_permission
EnsureTableButtonPermission(u, t, button_key) ==
    IF GetMembershipRole(u) = "owner" THEN Ok
    ELSE IF tablePerms[t][u] = NoRow THEN Deny(403, "missing_button_config", <<>>)
    ELSE IF tablePerms[t][u][button_key] THEN Ok
    ELSE Deny(403, "no_table_button_permission",
              <<AuditRow("table_button_permission_denied", "denied", u, "table", t,
                         button_key)>>)

\* _ensure_view_exists; expected_table_id is NoTable when the caller passes none.
EnsureViewExists(u, v, expected_table_id) ==
    IF /\ v \in views
       /\ TableTenant[ViewTable[v]] = CurrentTenant
       /\ (expected_table_id # NoTable => ViewTable[v] = expected_table_id)
    THEN Ok
    ELSE Deny(404, "view_not_found",
              IF v \in views THEN <<AuditCrossTenantAccess(u, "view", v)>> ELSE <<>>)

\* A view gate that any stored row opens, whatever its flags.
ViewRowGrantsAnyRow(permission, access) == permission # NoRow

\* The decision of _ensure_view_access on the stored row.
ViewRowGrants(permission, access) ==
    /\ permission # NoRow
    /\ IF access = "write" THEN permission.can_write
       ELSE permission.can_read \/ permission.can_write

\* _ensure_view_access
EnsureViewAccess(u, v, access, expected_table_id) ==
    AndThen(EnsureViewExists(u, v, expected_table_id),
    AndThen(EnsureTableAccess(u, ViewTable[v], access),
        IF GetMembershipRole(u) = "owner" THEN Ok
        ELSE IF viewPerms[v][u] = NoRow
             THEN Deny(403, "no_view_access",
                       <<AuditRow("view_permission_denied", "denied", u, "view", v,
                                  IF access = "write" THEN "required=write;missing_row=true"
                                  ELSE "required=read;missing_row=true")>>)
        ELSE IF ViewRowGrants(viewPerms[v][u], access) THEN Ok
        ELSE Deny(403, "no_view_access",
                  <<AuditRow("view_permission_denied", "denied", u, "view", v,
                             RequiredDetail(access))>>)))

\* A record lookup that answers 403 for a record of another tenant.
EnsureRecordExistsForbiddingForeign(u, r) ==
    IF r \in records /\ TableTenant[RecordTable[r]] = CurrentTenant THEN Ok
    ELSE IF r \in records
         THEN Deny(403, "no_tenant_access", <<AuditCrossTenantAccess(u, "record", r)>>)
    ELSE Deny(404, "record_not_found", <<>>)

\* _ensure_record_exists
EnsureRecordExists(u, r) ==
    IF r \in records /\ TableTenant[RecordTable[r]] = CurrentTenant THEN Ok
    ELSE Deny(404, "record_not_found",
              IF r \in records THEN <<AuditCrossTenantAccess(u, "record", r)>> ELSE <<>>)

\* _ensure_field_exists
EnsureFieldExists(u, f) ==
    IF f \in fields /\ TableTenant[FieldTable[f]] = CurrentTenant THEN Ok
    ELSE Deny(404, "field_not_found",
              IF f \in fields THEN <<AuditCrossTenantAccess(u, "field", f)>> ELSE <<>>)

\* _get_table_reference_member_ids
GetTableReferenceMemberIds(t) ==
    {u \in Users : tablePerms[t][u] # NoRow
                   /\ (tablePerms[t][u].can_read \/ tablePerms[t][u].can_write)}

\* ---------------------------------------------- bulk permission replace

Range(s) == {s[i] : i \in DOMAIN s}

\* membership_map.get(user_id)
MembershipMapGet(u) == IF memberships[u] = NoMember THEN "none" ELSE memberships[u].role

\* The can_read / can_write a payload item resolves to (main.py 827-832).
TargetFlags(role, item) ==
    IF role = "owner"
    THEN [can_read |-> TRUE, can_write |-> item.canWrite]
    ELSE [can_read |-> item.canRead \/ item.canWrite, can_write |-> item.canWrite]

\* An upsert loop that takes can_read from the item's canRead and the can_write
\* the row held before the assignment.
RECURSIVE UpsertItemsStaleWrite(_, _)
UpsertItemsStaleWrite(acc, items) ==
    IF items = <<>> THEN acc
    ELSE LET item == Head(items)
             flags == TargetFlags(MembershipMapGet(item.userId), item)
         IN IF acc.existing_map[item.userId] # NoRow
            THEN UpsertItemsStaleWrite(
                   [acc EXCEPT !.existing_map[item.userId] =
                        [@ EXCEPT !.can_read = item.canRead \/ acc.existing_map[item.userId].can_write,
                                  !.can_write = flags.can_write]],
                   Tail(items))
            ELSE UpsertItemsStaleWrite(
                   [acc EXCEPT !.added = Append(@, [user_id |-> item.userId, flags |-> flags])],
                   Tail(items))

\* The upsert loop over payload.items.  acc.existing_map is the rows read
\* before the loop (updated in place); acc.added lists the rows db.add()ed,
\* one per item whose user had no row when the request started.
RECURSIVE UpsertItems(_, _)
UpsertItems(acc, items) ==
    IF items = <<>> THEN acc
    ELSE LET item == Head(items)
             flags == TargetFlags(MembershipMapGet(item.userId), item)
         IN IF acc.existing_map[item.userId] # NoRow
            THEN UpsertItems(
                   [acc EXCEPT !.existing_map[item.userId] =
                        [@ EXCEPT !.can_read = flags.can_read, !.can_write = flags.can_write]],
                   Tail(items))
            ELSE UpsertItems(
                   [acc EXCEPT !.added = Append(@, [user_id |-> item.userId, flags |-> flags])],
                   Tail(items))

\* The sweep over existing_map: rows of users outside keep_ids are deleted,
\* an owner's row is reset to read/write instead.
SweepRows(existing_map, keep_ids) ==
    [x \in Users |->
        IF existing_map[x] = NoRow \/ x \in keep_ids THEN existing_map[x]
        ELSE IF MembershipMapGet(x) = "owner"
             THEN [existing_map[x] EXCEPT !.can_read = TRUE, !.can_write = TRUE]
        ELSE NoRow]

\* db.commit(): two pending rows for one (tenant, resource, user) break the
\* unique constraint; the transaction rolls back and the request fails.
UniqueViolation(added) ==
    \E i, j \in DOMAIN added : i < j /\ added[i].user_id = added[j].user_id

\* The rows of one table after update_table_permissions commits.
ReplaceTableRows(existing, items) ==
    LET keep_ids == {item.userId : item \in Range(items)}
        acc == UpsertItems([existing_map |-> existing, added |-> <<>>], items)
        swept == SweepRows(acc.existing_map, keep_ids)
    IN [conflict |-> UniqueViolation(acc.added),
        rows |-> [x \in Users |->
                    IF swept[x] # NoRow THEN swept[x]
                    ELSE IF \E i \in DOMAIN acc.added : acc.added[i].user_id = x
                         THEN LET i == CHOOSE k \in DOMAIN acc.added : acc.added[k].user_id = x
                              IN NewTablePermission(acc.added[i].flags.can_read,
                                                    acc.added[i].flags.can_write)
                    ELSE NoRow]]

\* The rows of one view after update_view_permissions commits: the same
\* upsert loop and sweep, on ViewPermissionModel rows.
ReplaceViewRows(existing, items) ==
    LET keep_ids == {item.userId : item \in Range(items)}
        acc == UpsertItems([existing_map |-> existing, added |-> <<>>], items)
        swept == SweepRows(acc.existing_map, keep_ids)
    IN [conflict |-> UniqueViolation(acc.added),
        rows |-> [x \in Users |->
                    IF swept[x] # NoRow THEN swept[x]
                    ELSE IF \E i \in DOMAIN acc.added : acc.added[i].user_id = x
                         THEN LET i == CHOOSE k \in DOMAIN acc.added : acc.added[k].user_id = x
                              IN NewViewPermission(acc.added[i].flags.can_read,
                                                   acc.added[i].flags.can_write)
                    ELSE NoRow]]

\* ------------------------------------------------- button permission update

AllButtons == [k \in ButtonKeys |-> TRUE]

\* Writes the six button columns of a row.
WithButtons(row, buttons) ==
    [row EXCEPT !.can_create_record = buttons["can_create_record"],
                !.can_delete_record = buttons["can_delete_record"],
                !.can_import_records = buttons["can_import_records"],
                !.can_export_records = buttons["can_export_records"],
                !.can_manage_filters = buttons["can_manage_filters"],
                !.can_manage_sorts = buttons["can_manage_sorts"]]

\* The loop of update_table_button_permissions over payload.items (main.py
\* 1034-1060); a row created here is put into existing_map at once.
RECURSIVE ButtonRows(_, _)
ButtonRows(existing_map, items) ==
    IF items = <<>> THEN existing_map
    ELSE LET item == Head(items)
             row == IF existing_map[item.userId] = NoRow
                    THEN NewTablePermission(TRUE, TRUE)
                    ELSE existing_map[item.userId]
             next_row == IF MembershipMapGet(item.userId) = "owner"
                         THEN WithButtons(row, AllButtons)
                         ELSE WithButtons(row, item.buttons)
         IN ButtonRows([existing_map EXCEPT ![item.userId] = next_row], Tail(items))

\* ------------------------------------------------------------ role defaults

BuiltinKeys == {"member", "admin", "project_manager", "developer", "implementer"}

\* _ensure_builtin_roles: adds the built-in roles the tenant lacks.
EnsureBuiltinRoles(rs) ==
    [k \in RoleKeys |-> IF rs[k] = NoRole /\ k \in BuiltinKeys THEN BuiltinRole(k) ELSE rs[k]]

\* can_read, can_write of a membership in apply_*_permissions_by_role_defaults
\* (main.py 898-906).
MembershipDefaults(rs, membership) ==
    IF membership.role = "owner" THEN [can_read |-> TRUE, can_write |-> TRUE]
    ELSE LET role == RoleMapGet(rs, membership.role_key)
             can_write == IF role # NoRole THEN role.default_table_can_write ELSE FALSE
             can_read == IF role # NoRole THEN role.default_table_can_read ELSE TRUE
         IN [can_read |-> can_read \/ can_write, can_write |-> can_write]

\* The rows of one table after apply_table_permissions_by_role_defaults.
ApplyTableDefaults(rs, existing) ==
    [x \in Users |->
        IF memberships[x] = NoMember THEN existing[x]
        ELSE LET d == MembershipDefaults(rs, memberships[x])
             IN IF existing[x] # NoRow
                THEN [existing[x] EXCEPT !.can_read = d.can_read, !.can_write = d.can_write]
                ELSE NewTablePermission(d.can_read, d.can_write)]

\* The rows of one view after apply_view_permissions_by_role_defaults.
ApplyViewDefaults(rs, existing) ==
    [x \in Users |->
        IF memberships[x] = NoMember THEN existing[x]
        ELSE LET d == MembershipDefaults(rs, memberships[x])
             IN IF existing[x] # NoRow
                THEN [existing[x] EXCEPT !.can_read = d.can_read, !.can_write = d.can_write]
                ELSE NewViewPermission(d.can_read, d.can_write)]

\* The role's defaults taken as stored, without widening read by write.
RoleDefaultsAsStored(role) ==
    [can_read |-> role.default_table_can_read,
     can_write |-> role.default_table_can_write]

\* can_read, can_write of _grant_permissions_by_role_defaults (main.py 2257-2258).
RoleDefaults(role) ==
    [can_read |-> role.default_table_can_read \/ role.default_table_can_write,
     can_write |-> role.default_table_can_write]

\* A grant that adds the missing table rows and leaves the existing ones as
\* they are.
GrantTablePermissionsMissingOnly(tp, x, role) ==
    [t \in OwnTables |->
        IF tp[t][x] # NoRow THEN tp[t]
        ELSE [tp[t] EXCEPT ![x] = NewTablePermission(RoleDefaults(role).can_read,
                                                     RoleDefaults(role).can_write)]]

\* _grant_permissions_by_role_defaults, the tables: every table of the tenant.
GrantTablePermissions(tp, x, role) ==
    [t \in OwnTables |->
        IF tp[t][x] # NoRow
        THEN [tp[t] EXCEPT ![x] = [@ EXCEPT !.can_read = RoleDefaults(role).can_read,
                                             !.can_write = RoleDefaults(role).can_write]]
        ELSE [tp[t] EXCEPT ![x] = NewTablePermission(RoleDefaults(role).can_read,
                                                     RoleDefaults(role).can_write)]]

\* _grant_permissions_by_role_defaults, the views: every view of the tenant.
GrantViewPermissions(vp, x, role) ==
    [v \in ViewPool |->
        IF ~(v \in views /\ TableTenant[ViewTable[v]] = CurrentTenant) THEN vp[v]
        ELSE IF vp[v][x] # NoRow
        THEN [vp[v] EXCEPT ![x] = [@ EXCEPT !.can_read = RoleDefaults(role).can_read,
                                             !.can_write = RoleDefaults(role).can_write]]
        ELSE [vp[v] EXCEPT ![x] = NewViewPermission(RoleDefaults(role).can_read,
                                                   RoleDefaults(role).can_write)]]

\* _ensure_manage_members_allowed
EnsureManageMembersAllowed(u) ==
    IF memberships[u] = NoMember THEN Deny(403, "no_member_permission", <<>>)
    ELSE IF memberships[u].role = "owner" THEN Ok
    ELSE IF /\ RoleMapGet(roles, memberships[u].role_key) # NoRole
            /\ RoleMapGet(roles, memberships[u].role_key).can_manage_members
         THEN Ok
    ELSE Deny(403, "no_manage_members", <<>>)

\* require_owner_role
RequireOwnerRole(u) ==
    AndThen(GetCurrentTenant(u),
            IF memberships[u].role # "owner" THEN Deny(403, "owner_only", <<>>) ELSE Ok)

Success(action, u, rtype, rid) ==
    [Ok EXCEPT !.audit = <<AuditRow(action, "success", u, rtype, rid, "")>>]

\* ------------------------------------------------------------ query engine
\* fields_by_id.get(...) of an id that names no field of the table
NoField == [absent |-> "field"]

\* A field id as the JSON string a filter or a sort names it by.
FieldIdValue(f) == Str(<<f>>)

\* {field.id: field for field in fields} of table t
FieldsById(t) ==
    [f \in {x \in fields : FieldTable[x] = t} |-> [id |-> f, type |-> FieldType[f]]]

\* fields_by_id.get(field_id)
FieldsGet(fields_by_id, field_id) ==
    IF \E f \in DOMAIN fields_by_id : FieldIdValue(f) = field_id
    THEN fields_by_id[CHOOSE f \in DOMAIN fields_by_id : FieldIdValue(f) = field_id]
    ELSE NoField

\* item.get(key, default) on a JSON object
ItemGet(item, key, default) == IF key \in DOMAIN item THEN item[key] ELSE default

\* str(word).lower() on the spellings a request may use for an operator or a
\* direction
LowerWord(w) ==
    CASE w = "DESC" -> "desc" [] w = "Desc" -> "desc" [] w = "ASC" -> "asc"
      [] w = "GTE" -> "gte" [] w = "Contains" -> "contains" [] w = "EQ" -> "eq"
      [] w = "OR" -> "or" [] w = "AND" -> "and"
      [] OTHER -> w

\* _record_value_by_field: the value_json of the record's row for the field,
\* None when it has none
RecordValueByField(record, field_id) ==
    IF \E f \in DOMAIN record.values : FieldIdValue(f) = field_id
    THEN record.values[CHOOSE f \in DOMAIN record.values : FieldIdValue(f) = field_id]
    ELSE Null

\* _normalize_sort_value, for the field types of the universe (text, number,
\* member: none is a date)
NormalizeSortValue(field, value) ==
    IF value = Null THEN Null
    ELSE IF field = NoField THEN Str(Lower(PyStr(value)))
    ELSE IF field.type = "number" THEN (IF value.t = "num" THEN value ELSE Null)
    ELSE Str(Lower(PyStr(value)))

\* a < b on two sort keys of one field: numbers by value, strings by code
\* point.  (Stored values are validated against the field's type, so the
\* keys of one field are all numbers or all strings.)
KeyLess(a, b) ==
    IF a.t = "num" /\ b.t = "num" THEN a.n < b.n
    ELSE a.t = "str" /\ b.t = "str" /\ StrLess(a.s, b.s)

\* sorted(..., reverse=True) keeps equal keys in their original order too.
KeyBefore(a, b, reverse) == IF reverse THEN KeyLess(b, a) ELSE KeyLess(a, b)

\* One step of a stable insertion: x goes behind every element that is not
\* strictly after it.
InsertSorted(sorted, x, reverse) ==
    LET k == Cardinality({i \in 1 .. Len(sorted) : ~KeyBefore(x.key, sorted[i].key, reverse)})
    IN SubSeq(sorted, 1, k) \o <<x>> \o SubSeq(sorted, k + 1, Len(sorted))

\* sorted(pairs, key=..., reverse=reverse) on [key, record] pairs
RECURSIVE SortedPairs(_, _)
SortedPairs(pairs, reverse) ==
    IF pairs = <<>> THEN <<>>
    ELSE InsertSorted(SortedPairs(SubSeq(pairs, 1, Len(pairs) - 1), reverse),
                      pairs[Len(pairs)], reverse)

\* [x for x in seq if Test(x)]
RECURSIVE SelectWhere(_, _)
SelectWhere(seq, keep) ==
    IF seq = <<>> THEN <<>>
    ELSE (IF seq[1] \in keep THEN <<seq[1]>> ELSE <<>>) \o SelectWhere(Tail(seq), keep)

\* The record ids in ascending order: order_by(RecordModel.id.asc()).
RecordOrder == <<"q1", "q2", "q3", "r1", "r2", "rX">>

\* The RecordModel rows of table t with their values, as _query_records
\* selects them (main.py 1751-1758).
TableRecords(t) ==
    LET ids == SelectWhere(RecordOrder, {r \in records : RecordTable[r] = t})
    IN [i \in 1 .. Len(ids) |-> [id |-> ids[i], values |-> recordValues[ids[i]]]]

\* Is the fieldId of a filter or sort item a non-empty string?
ValidFieldId(item) ==
    LET field_id == ItemGet(item, "fieldId", Null)
    IN field_id.t = "str" /\ field_id.s # <<>>

\* A sort pass that leaves the null records in the comparator pass as the
\* smallest key: first when ascending, last when descending.
ApplySortNullsAsSmallest(sorted_records, fields_by_id, sort_item) ==
    IF ~ValidFieldId(sort_item) THEN sorted_records
    ELSE LET field_id == sort_item.fieldId
             field == FieldsGet(fields_by_id, field_id)
             reverse == LowerWord(ItemGet(sort_item, "direction", "asc")) = "desc"
             all == Range(sorted_records)
             non_null_records ==
                 SelectWhere(sorted_records, {r \in all : RecordValueByField(r, field_id) # Null})
             null_records ==
                 SelectWhere(sorted_records, {r \in all : RecordValueByField(r, field_id) = Null})
             pairs == [i \in 1 .. Len(non_null_records) |->
                          [key |-> NormalizeSortValue(field,
                                       RecordValueByField(non_null_records[i], field_id)),
                           record |-> non_null_records[i]]]
             ordered == SortedPairs(pairs, reverse)
             non_null_sorted == [i \in 1 .. Len(ordered) |-> ordered[i].record]
         IN IF reverse THEN non_null_sorted \o null_records
            ELSE null_records \o non_null_sorted

\* One pass of the loop over reversed(sorts) (services.py 244-260)
ApplySort(sorted_records, fields_by_id, sort_item) ==
    IF ~ValidFieldId(sort_item) THEN sorted_records
    ELSE LET field_id == sort_item.fieldId
             direction == LowerWord(ItemGet(sort_item, "direction", "asc"))
             field == FieldsGet(fields_by_id, field_id)
             reverse == direction = "desc"
             all == Range(sorted_records)
             non_null_records ==
                 SelectWhere(sorted_records, {r \in all : RecordValueByField(r, field_id) # Null})
             null_records ==
                 SelectWhere(sorted_records, {r \in all : RecordValueByField(r, field_id) = Null})
             pairs == [i \in 1 .. Len(non_null_records) |->
                          [key |-> NormalizeSortValue(field,
                                       RecordValueByField(non_null_records[i], field_id)),
                           record |-> non_null_records[i]]]
             ordered == SortedPairs(pairs, reverse)
         IN [i \in 1 .. Len(ordered) |-> ordered[i].record] \o null_records

\* The sort passes in list order, which makes the last key the most
\* significant one.
RECURSIVE ApplySortsFirstKeyFirst(_, _, _)
ApplySortsFirstKeyFirst(sorted_records, fields_by_id, sorts) ==
    IF sorts = <<>> THEN sorted_records
    ELSE ApplySortsFirstKeyFirst(ApplySort(sorted_records, fields_by_id, sorts[1]),
                                 fields_by_id, Tail(sorts))

\* for sort_item in reversed(sorts): the last key first
RECURSIVE ApplySorts(_, _, _)
ApplySorts(sorted_records, fields_by_id, sorts) ==
    IF sorts = <<>> THEN sorted_records
    ELSE ApplySorts(ApplySort(sorted_records, fields_by_id, sorts[Len(sorts)]),
                    fields_by_id, SubSeq(sorts, 1, Len(sorts) - 1))

\* The ordering operators read from the expected value's side: gte as <=.
OrderedMirrored(op, less, equal) ==
    CASE op = "gt" -> less
      [] op = "gte" -> less \/ equal
      [] op = "lt" -> ~less /\ ~equal
      [] OTHER -> ~less

\* a < b, a <= b, a > b, a >= b for the ordering operators
Ordered(op, less, equal) ==
    CASE op = "gt" -> ~less /\ ~equal
      [] op = "gte" -> ~less
      [] op = "lt" -> less
      [] OTHER -> less \/ equal

\* _match_filter
MatchFilter(field, value, item) ==
    LET op == LowerWord(ItemGet(item, "op", "contains"))
        expected == ItemGet(item, "value", Null)
        contains == Contains(Lower(PyStr(OrEmpty(expected))), Lower(PyStr(OrEmpty(value))))
    IN CASE op = "contains" -> contains
         [] op \in {"eq", "equals"} -> value = expected
         [] op = "neq" -> value # expected
         [] op = "in" -> expected.t = "list" /\ value \in Range(expected.l)
         [] op = "nin" -> expected.t # "list" \/ value \notin Range(expected.l)
         [] op = "empty" -> value \in {Null, Str(<<>>), List(<<>>)}
         [] op = "not_empty" -> value \notin {Null, Str(<<>>), List(<<>>)}
         [] op \in {"gt", "gte", "lt", "lte"} ->
                IF field # NoField /\ field.type = "date" /\ value.t = "str" /\ expected.t = "str"
                THEN Ordered(op, StrLess(value.s, expected.s), value.s = expected.s)
                ELSE /\ value.t = "num"
                     /\ expected.t = "num"
                     /\ Ordered(op, value.n < expected.n, value.n = expected.n)
         [] OTHER -> IF field # NoField /\ field.type = "singleSelect"
                     THEN value = expected
                     ELSE contains

\* Does the record pass the filter item?
RecordMatches(record, fields_by_id, filter_item) ==
    LET field_id == filter_item.fieldId
    IN MatchFilter(FieldsGet(fields_by_id, field_id),
                   RecordValueByField(record, field_id), filter_item)

\* The 'and' branch: one filtering pass per valid filter (services.py 232-240)
RECURSIVE FilterEach(_, _, _)
FilterEach(filtered, fields_by_id, valid_filters) ==
    IF valid_filters = <<>> THEN filtered
    ELSE FilterEach(SelectWhere(filtered, {r \in Range(filtered) :
                                              RecordMatches(r, fields_by_id, valid_filters[1])}),
                    fields_by_id, Tail(valid_filters))

\* The inner loop of the 'or' branch (services.py 226-231): the record is
\* appended at its first matching filter, and the loop breaks.
RECURSIVE AppendOnFirstMatch(_, _, _, _)
AppendOnFirstMatch(filtered, record, fields_by_id, valid_filters) ==
    IF valid_filters = <<>> THEN filtered
    ELSE IF RecordMatches(record, fields_by_id, valid_filters[1])
         THEN Append(filtered, record)
         ELSE AppendOnFirstMatch(filtered, record, fields_by_id, Tail(valid_filters))

\* The 'or' branch: one pass over the records (services.py 223-231)
RECURSIVE FilterAny(_, _, _, _)
FilterAny(filtered, recs, fields_by_id, valid_filters) ==
    IF recs = <<>> THEN filtered
    ELSE FilterAny(AppendOnFirstMatch(filtered, recs[1], fields_by_id, valid_filters),
                   Tail(recs), fields_by_id, valid_filters)

\* apply_filters_and_sorts
ApplyFiltersAndSorts(recs, fields_by_id, filters, sorts, filter_logic) ==
    LET valid_filters == SelectWhere(filters, {item \in Range(filters) : ValidFieldId(item)})
        filtered == IF valid_filters = <<>> THEN recs
                    ELSE IF filter_logic = "or"
                         THEN FilterAny(<<>>, recs, fields_by_id, valid_filters)
                         ELSE FilterEach(recs, fields_by_id, valid_filters)
    IN ApplySorts(filtered, fields_by_id, sorts)

\* pageSize: int = Query(default=100, ge=1, le=500)
MinPageSize == 1

MaxPageSize == 500

DigitValue(c) == (CHOOSE i \in 1 .. 10 : DecimalDigits[i] = c) - 1

RECURSIVE NatOfDigits(_)
NatOfDigits(cs) ==
    IF cs = <<>> THEN 0
    ELSE 10 * NatOfDigits(SubSeq(cs, 1, Len(cs) - 1)) + DigitValue(cs[Len(cs)])

IsDigits(cs) == cs # <<>> /\ \A i \in 1 .. Len(cs) : cs[i] \in Range(DecimalDigits)

\* int(text) on a string of a sign and decimal digits: the number, or
\* ValueError.
ParseInt(cs) ==
    IF cs # <<>> /\ cs[1] \in {"-", "+"} /\ IsDigits(Tail(cs))
    THEN [ok |-> TRUE, n |-> IF cs[1] = "-" THEN 0 - NatOfDigits(Tail(cs)) ELSE NatOfDigits(Tail(cs))]
    ELSE IF IsDigits(cs) THEN [ok |-> TRUE, n |-> NatOfDigits(cs)]
    ELSE [ok |-> FALSE, n |-> 0]

\* A slice bound as Python resolves it: a negative bound counts from the end,
\* and both ends are clamped to the list.
SliceBound(len, bound) ==
    IF bound < 0 THEN (IF len + bound < 0 THEN 0 ELSE len + bound)
    ELSE IF bound > len THEN len ELSE bound

\* seq[start : stop]
PySlice(seq, start, stop) ==
    LET lo == SliceBound(Len(seq), start)
        hi == SliceBound(Len(seq), stop)
    IN IF lo >= hi THEN <<>> ELSE SubSeq(seq, lo + 1, hi)

\* The page of _query_records (main.py 1762-1778): start, the slice and the
\* next cursor.  cursor is the request's string, <<>> when it sends none.
PageOf(recs, cursor, page_size) ==
    LET start == IF cursor = <<>> THEN 0 ELSE ParseInt(cursor).n
    IN [items |-> PySlice(recs, start, start + page_size),
        nextCursor |-> IF start + page_size < Len(recs)
                       THEN Str(StrOfInt(start + page_size)) ELSE Null,
        totalCount |-> Len(recs)]

\* ------------------------------------------------------------ value writes
\* allowed_member_ids: a set of user ids, or None when the caller passes none
MemberIds(ids) == [given |-> TRUE, ids |-> ids]

NoMemberIds == [given |-> FALSE, ids |-> {}]

\* validate_value raised HTTPException(400) / returned the value to store
Invalid(detail) == [status |-> 400, detail |-> detail, value |-> Null]

Valid(value) == [status |-> 200, detail |-> "ok", value |-> value]

\* A member check that takes any string for a member id once a set is
\* supplied.
ValidateMemberAnyId(value, allowed_member_ids) ==
    IF value.t # "str" THEN Invalid("member_id_not_string")
    ELSE IF ~allowed_member_ids.given THEN Invalid("member_scope_missing")
    ELSE Valid(value)

\* validate_value, the member branch (services.py 105-112)
ValidateMember(value, allowed_member_ids) ==
    IF value.t # "str" THEN Invalid("member_id_not_string")
    ELSE IF ~allowed_member_ids.given THEN Invalid("member_scope_missing")
    ELSE IF ~\E x \in allowed_member_ids.ids : UserIdValue(x) = value
         THEN Invalid("member_out_of_scope")
    ELSE Valid(value)

\* validate_value, for fields of type text, number and member; a field of
\* any other type of the universe is refused as unsupported.
ValidateValue(field, value, allowed_member_ids) ==
    IF value = Null THEN Valid(Null)
    ELSE CASE field.type = "text" ->
                 IF value.t = "str" THEN Valid(value) ELSE Invalid("text_expected")
           [] field.type = "number" ->
                 IF value.t = "num" THEN Valid(value) ELSE Invalid("number_expected")
           [] field.type = "member" -> ValidateMember(value, allowed_member_ids)
           [] OTHER -> Invalid("unsupported_field_type")

\* upsert_record_values: patch is the request's object as the list of its
\* [field_id, value] entries; values is the record's row of recordValues.
\* The first unknown field (404) or invalid value (400) ends the request,
\* whose transaction then stores nothing.
RECURSIVE UpsertRecordValues(_, _, _, _)
UpsertRecordValues(values, fields_by_id, patch, allowed_member_ids) ==
    IF patch = <<>> THEN [status |-> 200, detail |-> "ok", values |-> values]
    ELSE LET field == FieldsGet(fields_by_id, FieldIdValue(patch[1].field_id))
             checked == ValidateValue(field, patch[1].value, allowed_member_ids)
         IN IF field = NoField
            THEN [status |-> 404, detail |-> "field_not_found", values |-> values]
            ELSE IF checked.status # 200
            THEN [status |-> 400, detail |-> checked.detail, values |-> values]
            ELSE UpsertRecordValues([values EXCEPT ![patch[1].field_id] = checked.value],
                                    fields_by_id, Tail(patch), allowed_member_ids)

\* ------------------------------------------------------ aggregation engine
\* _to_float's result for a value float() makes nothing of
NotNumeric == [numeric |-> FALSE, n |-> 0]

\* text.strip(), for strings whose only blanks are spaces
RECURSIVE StripLeft(_)
StripLeft(cs) == IF cs # <<>> /\ cs[1] = " " THEN StripLeft(Tail(cs)) ELSE cs

RECURSIVE StripRight(_)
StripRight(cs) ==
    IF cs # <<>> /\ cs[Len(cs)] = " " THEN StripRight(SubSeq(cs, 1, Len(cs) - 1)) ELSE cs

Strip(cs) == StripRight(StripLeft(cs))

\* _to_float: a number as it is, a string through strip() and float(), which
\* on the strings of the universe (signs, digits, letters, spaces) reads
\* exactly the decimal integers; anything else is None.
ToFloat(value) ==
    CASE value.t = "num" -> [numeric |-> TRUE, n |-> value.n]
      [] value.t = "str" ->
            LET text == Strip(value.s)
            IN IF text # <<>> /\ ParseInt(text).ok
               THEN [numeric |-> TRUE, n |-> ParseInt(text).n]
               ELSE NotNumeric
      [] OTHER -> NotNumeric

\* sum(numbers)
RECURSIVE SumOf(_)
SumOf(numbers) == IF numbers = <<>> THEN 0 ELSE numbers[1] + SumOf(Tail(numbers))

\* A number of at most two decimals, held as its count of hundredths.
Hundredths(k) == [hundredths |-> k]

\* round(num / den, 2) for den > 0: to the nearest hundredth, a tie to the
\* even one.
Round2(num, den) ==
    LET q == (100 * num) \div den
        r == (100 * num) % den
    IN Hundredths(IF 2 * r < den THEN q
                  ELSE IF 2 * r > den THEN q + 1
                  ELSE IF q % 2 = 0 THEN q ELSE q + 1)

\* A metric that answers avg with the sum.
MetricValueSumOnly(aggregation, numbers) == Round2(SumOf(numbers), 1)

\* The value of a sum or avg metric (services.py 324-330)
MetricValue(aggregation, numbers) ==
    IF aggregation = "sum" THEN Round2(SumOf(numbers), 1)
    ELSE IF numbers = <<>> THEN Round2(0, 1)
    ELSE Round2(SumOf(numbers), Len(numbers))

\* The value_json of the table's records for the field, in id order
FieldValues(t, field_id) ==
    LET recs == TableRecords(t)
        held == SelectWhere(recs, {r \in Range(recs) : RecordValueByField(r, field_id) # Null})
    IN [i \in 1 .. Len(held) |-> RecordValueByField(held[i], field_id)]

\* numbers = [item for item in (_to_float(value) ...) if item is not None]
NumbersOf(values) ==
    LET numeric == SelectWhere(values, {v \in Range(values) : ToFloat(v).numeric})
    IN [i \in 1 .. Len(numeric) |-> ToFloat(numeric[i]).n]

\* aggregate_widget_data for a metric widget (services.py 296-330); widget is
\* the stored row [table_id, field_ids, aggregation], with NoTable and ""
\* for an unbound table and an unset aggregation.
AggregateWidgetData(widget, override_aggregation) ==
    LET aggregation == IF override_aggregation # "" THEN override_aggregation
                       ELSE IF widget.aggregation # "" THEN widget.aggregation
                       ELSE "count"
    IN IF widget.table_id = NoTable
       THEN [type |-> "metric", error |-> "no_table"]
       ELSE IF aggregation = "count"
       THEN [type |-> "metric",
             value |-> Hundredths(100 * Cardinality({r \in records : RecordTable[r] = widget.table_id})),
             label |-> "count"]
       ELSE IF widget.field_ids = <<>>
       THEN [type |-> "metric", error |-> "no_number_field"]
       ELSE [type |-> "metric",
             value |-> MetricValue(aggregation,
                                   NumbersOf(FieldValues(widget.table_id, widget.field_ids[1]))),
             label |-> IF aggregation = "sum" THEN "sum" ELSE "avg"]

\* ---------------------------------------------------------------- inputs

Items == [userId : Users, canRead : BOOLEAN, canWrite : BOOLEAN]

RECURSIVE SeqsUpTo(_, _)
SeqsUpTo(S, n) ==
    IF n = 0 THEN {<<>>}
    ELSE LET shorter == SeqsUpTo(S, n - 1)
         IN shorter \cup {Append(s, x) : s \in {q \in shorter : Len(q) = n - 1}, x \in S}

\* The items naming a user the seeded tenant holds a membership of.
SeededMemberItems == {item \in Items : item.userId \in {"u1", "u2"}}

\* Payloads of up to MaxItems items; an item naming the non-member fails
\* the whole request before any row is read, so it comes alone.
Payloads == SeqsUpTo(SeededMemberItems, MaxItems) \cup {<<item>> : item \in Items}

\* Payloads of one item at most.
SinglePayloads == SeqsUpTo(Items, 1)

\* The buttons a handler checks: create_record, delete_record and the import.
GatedButtonKeys == {"can_create_record", "can_delete_record", "can_import_records"}

\* Button payloads: every button allowed, or all but one of the checked ones.
ButtonChoices ==
    {AllButtons} \cup {[AllButtons EXCEPT ![k] = FALSE] : k \in GatedButtonKeys}

ButtonItems == [userId : Users, buttons : ButtonChoices]

ButtonPayloads == SeqsUpTo(ButtonItems, MaxButtonItems)

\* Import payloads: a view name (blank or not), field names, a row count.
ImportPayloads ==
    [viewName : {"", "imported"},
     fields : SeqsUpTo({"", "a", "b"}, MaxImportFields),
     records : 0 .. MaxImportRecords]

TableInputs == {"t1", "tX", GhostTable}

ViewInputs == {"v1", "v2", "v3", "vX", GhostView}

\* The tables the button update and the record requests name: one of the
\* tenant, one of another tenant.
ManagedTableInputs == {"t1", "tX"}

RecordInputs == {"r1", "r2", "rX", GhostRecord}

FieldInputs == {"f1", "fX", GhostField}

\* The gates of the permission management handlers on a table / on a view.
ManageTableGate(u, t) ==
    AndThen(GetCurrentTenant(u),
    AndThen(EnsureManageTablePermissionsAllowed(u), EnsureTableExists(u, t)))

ManageViewGate(u, v) ==
    AndThen(GetCurrentTenant(u),
    AndThen(EnsureManageTablePermissionsAllowed(u), EnsureViewExists(u, v, NoTable)))

\* A request the gates refuse is refused whatever its payload: the empty
\* payload stands for all of them.
PayloadsFor(gate, payloads) == IF gate.status = 200 THEN payloads ELSE {<<>>}

\* --------------------------------------------------------------- handlers

\* GET /tables/{table_id}/fields
GetFields(u, t) ==
    LET g == AndThen(GetCurrentTenant(u), EnsureTableAccess(u, t, "read"))
    IN /\ resp' = Reply("get_fields", u, t, NoView, g,
                        IF g.status = 200 THEN {f \in fields : FieldTable[f] = t} ELSE {})
       /\ UNCHANGED <<db, inflight>>

\* PUT /tables/{table_id}/permissions
UpdateTablePermissions(u, t, items) ==
    LET gate == ManageTableGate(u, t)
        unknown_users == {item.userId : item \in Range(items)} \ {x \in Users : memberships[x] # NoMember}
    IN IF gate.status # 200
       THEN /\ resp' = Reply("update_table_permissions", u, t, NoView, gate, {})
            /\ UNCHANGED <<db, inflight>>
       ELSE IF unknown_users # {}
       THEN /\ resp' = Reply("update_table_permissions", u, t, NoView,
                             Deny(400, "unknown_users", <<>>), {})
            /\ UNCHANGED <<db, inflight>>
       ELSE LET res == ReplaceTableRows(tablePerms[t], items)
            IN IF res.conflict
               THEN /\ resp' = Reply("update_table_permissions", u, t, NoView,
                                     Deny(500, "integrity_error", <<>>), {})
                    /\ UNCHANGED <<db, inflight>>
               ELSE /\ tablePerms' = [tablePerms EXCEPT ![t] = res.rows]
                    /\ resp' = Reply("update_table_permissions", u, t, NoView,
                                     Success("update_table_permissions", u, "table", t), {})
                    /\ UNCHANGED <<memberships, roles, viewPerms, views, records, fields,
                                   recordValues, inflight>>

\* PUT /views/{view_id}/permissions
UpdateViewPermissions(u, v, items) ==
    LET gate == ManageViewGate(u, v)
        unknown_users == {item.userId : item \in Range(items)} \ {x \in Users : memberships[x] # NoMember}
    IN IF gate.status # 200
       THEN /\ resp' = Reply("update_view_permissions", u, v, NoView, gate, {})
            /\ UNCHANGED <<db, inflight>>
       ELSE IF unknown_users # {}
       THEN /\ resp' = Reply("update_view_permissions", u, v, NoView,
                             Deny(400, "unknown_users", <<>>), {})
            /\ UNCHANGED <<db, inflight>>
       ELSE LET res == ReplaceViewRows(viewPerms[v], items)
            IN IF res.conflict
               THEN /\ resp' = Reply("update_view_permissions", u, v, NoView,
                                     Deny(500, "integrity_error", <<>>), {})
                    /\ UNCHANGED <<db, inflight>>
               ELSE /\ viewPerms' = [viewPerms EXCEPT ![v] = res.rows]
                    /\ resp' = Reply("update_view_permissions", u, v, NoView,
                                     Success("update_view_permissions", u, "view", v), {})
                    /\ UNCHANGED <<memberships, roles, tablePerms, views, records, fields,
                                   recordValues, inflight>>

\* PUT /tables/{table_id}/button-permissions
UpdateTableButtonPermissions(u, t, items) ==
    LET gate == ManageTableGate(u, t)
        target_user_ids == {item.userId : item \in Range(items)}
        unknown_users == target_user_ids \ {x \in Users : memberships[x] # NoMember}
        missing_base_permission ==
            {x \in target_user_ids : tablePerms[t][x] = NoRow /\ MembershipMapGet(x) # "owner"}
    IN IF gate.status # 200
       THEN /\ resp' = Reply("update_table_button_permissions", u, t, NoView, gate, {})
            /\ UNCHANGED <<db, inflight>>
       ELSE IF unknown_users # {}
       THEN /\ resp' = Reply("update_table_button_permissions", u, t, NoView,
                             Deny(400, "unknown_users", <<>>), {})
            /\ UNCHANGED <<db, inflight>>
       ELSE IF missing_base_permission # {}
       THEN /\ resp' = Reply("update_table_button_permissions", u, t, NoView,
                             Deny(400, "missing_base_permission", <<>>), {})
            /\ UNCHANGED <<db, inflight>>
       ELSE /\ tablePerms' = [tablePerms EXCEPT ![t] = ButtonRows(@, items)]
            /\ resp' = Reply("update_table_button_permissions", u, t, NoView,
                             Success("update_table_button_permissions", u, "table", t), {})
            /\ UNCHANGED <<memberships, roles, viewPerms, views, records, fields,
                           recordValues, inflight>>

\* POST /tables/{table_id}/permissions/apply-role-defaults
ApplyTablePermissionsByRoleDefaults(u, t) ==
    LET gate == ManageTableGate(u, t)
    IN IF gate.status # 200
       THEN /\ resp' = Reply("apply_table_permissions_role_defaults", u, t, NoView, gate, {})
            /\ UNCHANGED <<db, inflight>>
       ELSE /\ roles' = EnsureBuiltinRoles(roles)
            /\ tablePerms' = [tablePerms EXCEPT ![t] = ApplyTableDefaults(EnsureBuiltinRoles(roles), @)]
            /\ resp' = Reply("apply_table_permissions_role_defaults", u, t, NoView,
                             Success("apply_table_permissions_role_defaults", u, "table", t), {})
            /\ UNCHANGED <<memberships, viewPerms, views, records, fields, recordValues, inflight>>

\* POST /views/{view_id}/permissions/apply-role-defaults
ApplyViewPermissionsByRoleDefaults(u, v) ==
    LET gate == ManageViewGate(u, v)
    IN IF gate.status # 200
       THEN /\ resp' = Reply("apply_view_permissions_role_defaults", u, v, NoView, gate, {})
            /\ UNCHANGED <<db, inflight>>
       ELSE /\ roles' = EnsureBuiltinRoles(roles)
            /\ viewPerms' = [viewPerms EXCEPT ![v] = ApplyViewDefaults(EnsureBuiltinRoles(roles), @)]
            /\ resp' = Reply("apply_view_permissions_role_defaults", u, v, NoView,
                             Success("apply_view_permissions_role_defaults", u, "view", v), {})
            /\ UNCHANGED <<memberships, tablePerms, views, records, fields, recordValues, inflight>>

\* The gates of a query that asks for the view before it checks the table.
QueryGateViewFirst(u, t, view_id, filter_logic) ==
    AndThen(GetCurrentTenant(u),
    AndThen(IF view_id = NoView /\ GetMembershipRole(u) # "owner"
            THEN Deny(400, "view_id_required", <<>>) ELSE Ok,
    AndThen(EnsureTableAccess(u, t, "read"),
    AndThen(IF view_id # NoView THEN EnsureViewAccess(u, view_id, "read", t) ELSE Ok,
            IF filter_logic \notin {"and", "or"}
            THEN Deny(400, "bad_filter_logic", <<>>) ELSE Ok))))

\* The gates of _query_records, in program order (main.py 1721-1741, 1757-1759).
\* view_id is NoView when the request names none; filter_logic is the
\* request's filterLogic after lower().
QueryGate(u, t, view_id, filter_logic) ==
    AndThen(GetCurrentTenant(u),
    AndThen(EnsureTableAccess(u, t, "read"),
    AndThen(IF view_id = NoView /\ GetMembershipRole(u) # "owner"
            THEN Deny(400, "view_id_required", <<>>) ELSE Ok,
    AndThen(IF view_id # NoView THEN EnsureViewAccess(u, view_id, "read", t) ELSE Ok,
            IF filter_logic \notin {"and", "or"}
            THEN Deny(400, "bad_filter_logic", <<>>) ELSE Ok))))

\* GET /tables/{table_id}/records and POST /tables/{table_id}/records/query,
\* for a request without filters, sorts or cursor on a view whose stored
\* configuration has none: the page is every record of the table.
QueryRecords(u, t, view_id, filter_logic) ==
    LET g == QueryGate(u, t, view_id, filter_logic)
    IN /\ resp' = Reply("query_records", u, t, view_id, g,
                        IF g.status = 200 THEN {r \in records : RecordTable[r] = t} ELSE {})
       /\ UNCHANGED <<db, inflight>>

\* The gates of a paged query: the page size bounds of the route, the gates
\* of _query_records, then the cursor (main.py 1659, 1721-1767).
QueryPageGate(u, t, view_id, query) ==
    AndThen(GetCurrentTenant(u),
    AndThen(IF query.pageSize < MinPageSize \/ query.pageSize > MaxPageSize
            THEN Deny(422, "page_size_out_of_range", <<>>) ELSE Ok,
    AndThen(QueryGate(u, t, view_id, LowerWord(query.filterLogic)),
            IF query.cursor # <<>> /\ ~ParseInt(query.cursor).ok
            THEN Deny(400, "bad_cursor", <<>>) ELSE Ok)))

\* GET /tables/{table_id}/records and POST /tables/{table_id}/records/query
\* with the request's own filters and sorts, which replace the view's stored
\* ones: query is [filters, sorts, filterLogic, cursor, pageSize].  The reply
\* carries the request and, when it is served, the page.
QueryRecordsPage(u, t, view_id, query) ==
    LET g == QueryPageGate(u, t, view_id, query)
        recs == ApplyFiltersAndSorts(TableRecords(t), FieldsById(t), query.filters,
                                     query.sorts, LowerWord(query.filterLogic))
    IN /\ resp' = Reply("query_records_page", u, t, view_id, g,
                        IF g.status = 200
                        THEN [query |-> query,
                              page |-> PageOf(recs, query.cursor, query.pageSize)]
                        ELSE [query |-> query])
       /\ UNCHANGED <<db, inflight>>

\* POST /dashboards/widgets/{widget_id}/data for a metric widget the tenant
\* stores as the row widget; override_aggregation is "" when the request
\* sends none.  The reply carries the widget, the override and the payload.
GetDashboardWidgetData(u, widget, override_aggregation) ==
    LET g == AndThen(GetCurrentTenant(u),
                     IF widget.table_id # NoTable
                     THEN EnsureTableAccess(u, widget.table_id, "read") ELSE Ok)
    IN /\ resp' = Reply("get_dashboard_widget_data", u, widget.table_id, NoView, g,
                        IF g.status = 200
                        THEN [widget |-> widget, override |-> override_aggregation,
                              payload |-> AggregateWidgetData(widget, override_aggregation)]
                        ELSE [widget |-> widget, override |-> override_aggregation])
       /\ UNCHANGED <<db, inflight>>

\* POST /tables/{table_id}/records, with no initial values
CreateRecord(u, t) ==
    LET g == AndThen(GetCurrentTenant(u),
             AndThen(EnsureTableAccess(u, t, "write"),
                     EnsureTableButtonPermission(u, t, "can_create_record")))
    IN IF g.status # 200
       THEN /\ resp' = Reply("create_record", u, t, NoView, g, {})
            /\ UNCHANGED <<db, inflight>>
       ELSE \E r \in RecordPool \ records :
               /\ RecordTable[r] = t
               /\ records' = records \cup {r}
               /\ resp' = Reply("create_record", u, t, NoView, g, {r})
               /\ UNCHANGED <<memberships, roles, tablePerms, viewPerms, views, fields,
                              recordValues, inflight>>

\* A patch that keeps what the entries before the failing one wrote.
PatchRecordKeepingEarlierEntries(u, r, patch) ==
    LET g == AndThen(GetCurrentTenant(u),
             AndThen(EnsureRecordExists(u, r),
                     EnsureTableAccess(u, RecordTable[r], "write")))
        t == RecordTable[r]
        done == UpsertRecordValues(recordValues[r], FieldsById(t), patch,
                                   MemberIds(GetTableReferenceMemberIds(t)))
    IN IF g.status # 200
       THEN /\ resp' = Reply("patch_record", u, r, NoView, g, [patch |-> patch])
            /\ UNCHANGED <<db, inflight>>
       ELSE /\ recordValues' = [recordValues EXCEPT ![r] = done.values]
            /\ resp' = Reply("patch_record", u, r, NoView,
                             Deny(done.status, done.detail, <<>>),
                             [patch |-> patch, values |-> done.values])
            /\ UNCHANGED <<memberships, roles, tablePerms, viewPerms, views, records,
                           fields, inflight>>

\* PATCH /records/{record_id}; patch is the valuesPatch object as the list
\* of its [field_id, value] entries.  The reply carries the patch and, when
\* it is stored, the record's values.
PatchRecord(u, r, patch) ==
    LET g == AndThen(GetCurrentTenant(u),
             AndThen(EnsureRecordExists(u, r),
                     EnsureTableAccess(u, RecordTable[r], "write")))
        t == RecordTable[r]
        done == UpsertRecordValues(recordValues[r], FieldsById(t), patch,
                                   MemberIds(GetTableReferenceMemberIds(t)))
    IN IF g.status # 200
       THEN /\ resp' = Reply("patch_record", u, r, NoView, g, [patch |-> patch])
            /\ UNCHANGED <<db, inflight>>
       ELSE IF done.status # 200
       THEN /\ resp' = Reply("patch_record", u, r, NoView,
                            Deny(done.status, done.detail, <<>>), [patch |-> patch])
            /\ UNCHANGED <<db, inflight>>
       ELSE /\ recordValues' = [recordValues EXCEPT ![r] = done.values]
            /\ resp' = Reply("patch_record", u, r, NoView, g,
                             [patch |-> patch, values |-> done.values])
            /\ UNCHANGED <<memberships, roles, tablePerms, viewPerms, views, records,
                           fields, inflight>>

\* POST /tables/{table_id}/records with initialValues, given as the list of
\* its [field_id, value] entries.  The RecordModel and the values are added
\* to the session and committed together (main.py 1836-1855); a request that
\* raises before db.commit() leaves the session to get_db, which closes it
\* without a commit.
CreateRecordWithValues(u, t, initial_values) ==
    LET g == AndThen(GetCurrentTenant(u),
             AndThen(EnsureTableAccess(u, t, "write"),
                     EnsureTableButtonPermission(u, t, "can_create_record")))
        done == UpsertRecordValues([f \in FieldPool |-> Null], FieldsById(t), initial_values,
                                   MemberIds(GetTableReferenceMemberIds(t)))
    IN IF g.status # 200
       THEN /\ resp' = Reply("create_record", u, t, NoView, g,
                             [initial_values |-> initial_values])
            /\ UNCHANGED <<db, inflight>>
       ELSE IF done.status # 200
       THEN /\ resp' = Reply("create_record", u, t, NoView,
                             Deny(done.status, done.detail, <<>>),
                             [initial_values |-> initial_values])
            /\ UNCHANGED <<db, inflight>>
       ELSE \E r \in RecordPool \ records :
               /\ RecordTable[r] = t
               /\ records' = records \cup {r}
               /\ recordValues' = [recordValues EXCEPT ![r] = done.values]
               /\ resp' = Reply("create_record", u, t, NoView, g,
                                [initial_values |-> initial_values, id |-> r])
               /\ UNCHANGED <<memberships, roles, tablePerms, viewPerms, views, fields,
                              inflight>>

\* DELETE /records/{record_id}; the record's values go with it
\* (RecordModel.values cascades).
DeleteRecord(u, r) ==
    LET g == AndThen(GetCurrentTenant(u),
             AndThen(EnsureRecordExists(u, r),
             AndThen(EnsureTableAccess(u, RecordTable[r], "write"),
                     EnsureTableButtonPermission(u, RecordTable[r], "can_delete_record"))))
    IN IF g.status # 200
       THEN /\ resp' = Reply("delete_record", u, r, NoView, g, {})
            /\ UNCHANGED <<db, inflight>>
       ELSE /\ records' = records \ {r}
            /\ recordValues' = [recordValues EXCEPT ![r] = [f \in FieldPool |-> Null]]
            /\ resp' = Reply("delete_record", u, r, NoView, [g EXCEPT !.status = 204], {})
            /\ UNCHANGED <<memberships, roles, tablePerms, viewPerms, views, fields, inflight>>

\* DELETE /fields/{field_id}; the field's values go with it
\* (FieldModel.values cascades).
DeleteField(u, f) ==
    LET g == AndThen(GetCurrentTenant(u),
             AndThen(EnsureFieldExists(u, f),
                     EnsureTableAccess(u, FieldTable[f], "write")))
    IN IF g.status # 200
       THEN /\ resp' = Reply("delete_field", u, f, NoView, g, {})
            /\ UNCHANGED <<db, inflight>>
       ELSE /\ fields' = fields \ {f}
            /\ recordValues' = [r \in RecordPool |-> [recordValues[r] EXCEPT ![f] = Null]]
            /\ resp' = Reply("delete_field", u, f, NoView, [g EXCEPT !.status = 204], {})
            /\ UNCHANGED <<memberships, roles, tablePerms, viewPerms, views, records, inflight>>

\* The checks of _import_view_bundle_for_table before it creates anything
\* (main.py 1483-1507).
ImportGate(u, t, payload) ==
    AndThen(GetCurrentTenant(u),
    AndThen(EnsureTableAccess(u, t, "write"),
    AndThen(EnsureTableButtonPermission(u, t, "can_import_records"),
    AndThen(IF payload.viewName = "" THEN Deny(400, "view_name_empty", <<>>) ELSE Ok,
    AndThen(IF payload.fields = <<>> THEN Deny(400, "no_fields", <<>>) ELSE Ok,
    AndThen(IF "" \in Range(payload.fields) THEN Deny(400, "field_name_empty", <<>>) ELSE Ok,
            IF Cardinality(Range(payload.fields)) # Len(payload.fields)
            THEN Deny(400, "field_name_duplicate", <<>>) ELSE Ok))))))

\* An import that creates no record for a row without values and still
\* reports the number of rows.
ImportViewBundleSkippingEmptyRows(u, t, payload) ==
    LET g == ImportGate(u, t, payload)
        free_views == {v \in ViewPool \ views : ViewTable[v] = t}
        free_fields == {f \in FieldPool \ fields : FieldTable[f] = t}
    IN IF g.status # 200
       THEN /\ resp' = Reply("import_view_bundle", u, t, NoView, g, {})
            /\ UNCHANGED <<db, inflight>>
       ELSE /\ free_views # {}
            /\ Cardinality(free_fields) >= Len(payload.fields)
            /\ LET v == CHOOSE w \in free_views : TRUE
                    created_fields == CHOOSE S \in SUBSET free_fields :
                                         Cardinality(S) = Len(payload.fields)
               IN /\ views' = views \cup {v}
                  /\ viewPerms' = [viewPerms EXCEPT ![v] =
                        [x \in Users |-> IF x = u THEN NewViewPermission(TRUE, TRUE) ELSE NoRow]]
                  /\ fields' = fields \cup created_fields
                  /\ resp' = Reply("import_view_bundle", u, t, v, g,
                                   [payload |-> payload, fieldIds |-> created_fields,
                                    recordCount |-> payload.records])
            /\ UNCHANGED <<memberships, roles, tablePerms, records, recordValues, inflight>>

\* POST /tables/{table_id}/views/import, for text fields (stripped names in
\* payload.fields) and payload.records rows without values: a new view with
\* the importer's read/write row, one field per name, one record per row.  The reply carries the
\* bundle, the ids of the created fields and the record count.
ImportViewBundle(u, t, payload) ==
    LET g == ImportGate(u, t, payload)
        free_views == {v \in ViewPool \ views : ViewTable[v] = t}
        free_fields == {f \in FieldPool \ fields : FieldTable[f] = t}
        free_records == {r \in RecordPool \ records : RecordTable[r] = t}
    IN IF g.status # 200
       THEN /\ resp' = Reply("import_view_bundle", u, t, NoView, g, {})
            /\ UNCHANGED <<db, inflight>>
       ELSE /\ free_views # {}
            /\ Cardinality(free_fields) >= Len(payload.fields)
            /\ Cardinality(free_records) >= payload.records
            /\ LET v == CHOOSE w \in free_views : TRUE
                    created_fields == CHOOSE S \in SUBSET free_fields :
                                         Cardinality(S) = Len(payload.fields)
                    created_records == CHOOSE S \in SUBSET free_records :
                                          Cardinality(S) = payload.records
               IN /\ views' = views \cup {v}
                  /\ viewPerms' = [viewPerms EXCEPT ![v] =
                        [x \in Users |-> IF x = u THEN NewViewPermission(TRUE, TRUE) ELSE NoRow]]
                  /\ fields' = fields \cup created_fields
                  /\ records' = records \cup created_records
                  /\ resp' = Reply("import_view_bundle", u, t, v, g,
                                   [payload |-> payload, fieldIds |-> created_fields,
                                    recordCount |-> payload.records])
            /\ UNCHANGED <<memberships, roles, tablePerms, recordValues, inflight>>

\* The rows of an import, upserted one after the other (main.py 1554-1570):
\* row k is the list of the values under the field names, in the order of
\* payload.fields; created_fields[k] is the id of the field made for name k.
RECURSIVE ImportRows(_, _, _, _, _)
ImportRows(values, rows, created_records, created_fields, allowed_member_ids) ==
    IF rows = <<>> THEN [status |-> 200, detail |-> "ok", values |-> values]
    ELSE LET r == created_records[1]
             initial_values == [k \in DOMAIN created_fields |->
                                   [field_id |-> created_fields[k].id, value |-> rows[1][k]]]
             fields_by_id == [f \in {created_fields[k].id : k \in DOMAIN created_fields} |->
                                 [id |-> f, type |-> FieldType[f]]]
             done == UpsertRecordValues(values[r], fields_by_id, initial_values,
                                        allowed_member_ids)
         IN IF done.status # 200
            THEN [status |-> done.status, detail |-> done.detail, values |-> values]
            ELSE ImportRows([values EXCEPT ![r] = done.values], Tail(rows),
                            Tail(created_records), created_fields, allowed_member_ids)

\* The checks of the import on a payload with typed fields: those of
\* ImportGate on the stripped field names.
ImportTypedGate(u, t, payload) ==
    ImportGate(u, t, [viewName |-> payload.viewName,
                      fields |-> [k \in DOMAIN payload.fields |-> payload.fields[k].name],
                      records |-> Len(payload.records)])

\* POST /tables/{table_id}/views/import with typed fields and rows of
\* values.  payload.fields lists [name, type] with stripped names; a field
\* gets an id _next_id hands out for its type.  The view, its permission
\* row and the fields are flushed, the records and values added, and all of
\* it committed at the end (main.py 1514-1574); a value that fails
\* validation raises before the commit and the session is closed without
\* one.
ImportViewBundleTyped(u, t, payload) ==
    LET g == ImportTypedGate(u, t, payload)
        free_views == {v \in ViewPool \ views : ViewTable[v] = t}
        free_records == {r \in RecordPool \ records : RecordTable[r] = t}
    IN IF g.status # 200
       THEN /\ resp' = Reply("import_view_bundle", u, t, NoView, g, [payload |-> payload])
            /\ UNCHANGED <<db, inflight>>
       ELSE /\ free_views # {}
            /\ Cardinality(free_records) >= Len(payload.records)
            /\ \E created_fields \in [DOMAIN payload.fields -> [id : FieldPool \ fields]] :
                  /\ \A k \in DOMAIN created_fields :
                        /\ FieldTable[created_fields[k].id] = t
                        /\ FieldType[created_fields[k].id] = payload.fields[k].type
                        /\ \A n \in DOMAIN created_fields :
                              created_fields[n].id = created_fields[k].id => n = k
                  /\ \E created_records \in [DOMAIN payload.records -> free_records] :
                        /\ \A k, n \in DOMAIN created_records :
                              created_records[n] = created_records[k] => n = k
                        /\ LET v == CHOOSE w \in free_views : TRUE
                               done == ImportRows(recordValues, payload.records, created_records,
                                                  created_fields,
                                                  MemberIds(GetTableReferenceMemberIds(t)))
                           IN IF done.status # 200
                              THEN /\ resp' = Reply("import_view_bundle", u, t, NoView,
                                                    Deny(done.status, done.detail, <<>>),
                                                    [payload |-> payload])
                                   /\ UNCHANGED <<db, inflight>>
                              ELSE /\ views' = views \cup {v}
                                   /\ viewPerms' = [viewPerms EXCEPT ![v] =
                                         [x \in Users |->
                                             IF x = u THEN NewViewPermission(TRUE, TRUE)
                                             ELSE NoRow]]
                                   /\ fields' = fields \cup
                                         {created_fields[k].id : k \in DOMAIN created_fields}
                                   /\ records' = records \cup Range(created_records)
                                   /\ recordValues' = done.values
                                   /\ resp' = Reply("import_view_bundle", u, t, v, g,
                                                    [payload |-> payload])
                                   /\ UNCHANGED <<memberships, roles, tablePerms, inflight>>

\* POST /tables/{table_id}/views
CreateView(u, t) ==
    LET g == AndThen(GetCurrentTenant(u), EnsureTableAccess(u, t, "write"))
    IN IF g.status # 200
       THEN /\ resp' = Reply("create_view", u, t, NoView, g, {})
            /\ UNCHANGED <<db, inflight>>
       ELSE \E v \in ViewPool \ views :
               /\ ViewTable[v] = t
               /\ views' = views \cup {v}
               /\ viewPerms' = [viewPerms EXCEPT ![v] =
                                  [x \in Users |-> IF x = u THEN NewViewPermission(TRUE, TRUE) ELSE NoRow]]
               /\ resp' = Reply("create_view", u, t, v, g, {})
               /\ UNCHANGED <<memberships, roles, tablePerms, records, fields,
                              recordValues, inflight>>

\* A view deletion that does not count the table's views.
DeleteViewUncounted(u, v) ==
    LET g == AndThen(GetCurrentTenant(u),
             AndThen(EnsureViewAccess(u, v, "write", NoTable),
                     EnsureTableAccess(u, ViewTable[v], "write")))
    IN IF g.status # 200
       THEN /\ resp' = Reply("delete_view", u, v, NoView, g, {})
            /\ UNCHANGED <<db, inflight>>
       ELSE /\ views' = views \ {v}
            /\ viewPerms' = [viewPerms EXCEPT ![v] = [x \in Users |-> NoRow]]
            /\ resp' = Reply("delete_view", u, v, NoView, [g EXCEPT !.status = 204], {})
            /\ UNCHANGED <<memberships, roles, tablePerms, records, fields, recordValues, inflight>>

\* DELETE /views/{view_id}; the view's permission rows go with it
\* (ViewModel.permissions cascades).
DeleteView(u, v) ==
    LET g == AndThen(GetCurrentTenant(u),
             AndThen(EnsureViewAccess(u, v, "write", NoTable),
             AndThen(EnsureTableAccess(u, ViewTable[v], "write"),
                     IF Cardinality({w \in views : ViewTable[w] = ViewTable[v]}) <= 1
                     THEN Deny(400, "last_view", <<>>) ELSE Ok)))
    IN IF g.status # 200
       THEN /\ resp' = Reply("delete_view", u, v, NoView, g, {})
            /\ UNCHANGED <<db, inflight>>
       ELSE /\ views' = views \ {v}
            /\ viewPerms' = [viewPerms EXCEPT ![v] = [x \in Users |-> NoRow]]
            /\ resp' = Reply("delete_view", u, v, NoView, [g EXCEPT !.status = 204], {})
            /\ UNCHANGED <<memberships, roles, tablePerms, records, fields, recordValues, inflight>>

\* POST /tenants/current/members, for a well-formed username and account
\* that resolve to user x.
CreateMember(u, x, role_key) ==
    LET gate == AndThen(GetCurrentTenant(u), EnsureManageMembersAllowed(u))
        rs == EnsureBuiltinRoles(roles)
        role == RoleMapGet(rs, role_key)
    IN IF gate.status # 200
       THEN /\ resp' = Reply("create_member", u, x, NoView, gate, {})
            /\ UNCHANGED <<db, inflight>>
       ELSE IF role = NoRole
       THEN /\ resp' = Reply("create_member", u, x, NoView, Deny(400, "role_not_found", <<>>), {})
            /\ UNCHANGED <<db, inflight>>
       ELSE IF memberships[x] # NoMember
       THEN /\ resp' = Reply("create_member", u, x, NoView, Deny(400, "already_member", <<>>), {})
            /\ UNCHANGED <<db, inflight>>
       ELSE /\ roles' = rs
            /\ memberships' = [memberships EXCEPT ![x] = [role |-> "member", role_key |-> role_key]]
            /\ tablePerms' = GrantTablePermissions(tablePerms, x, role)
            /\ viewPerms' = GrantViewPermissions(viewPerms, x, role)
            /\ resp' = Reply("create_member", u, x, NoView, Success("create_member", u, "user", x), {})
            /\ UNCHANGED <<views, records, fields, recordValues, inflight>>

\* PATCH /tenants/current/members/{member_user_id}/role
UpdateMemberRole(u, x, role_key) ==
    LET gate == RequireOwnerRole(u)
        rs == EnsureBuiltinRoles(roles)
        role == RoleMapGet(rs, role_key)
    IN IF gate.status # 200
       THEN /\ resp' = Reply("update_member_role", u, x, NoView, gate, {})
            /\ UNCHANGED <<db, inflight>>
       ELSE IF memberships[x] = NoMember
       THEN /\ resp' = Reply("update_member_role", u, x, NoView, Deny(404, "member_not_found", <<>>), {})
            /\ UNCHANGED <<db, inflight>>
       ELSE IF memberships[x].role = "owner"
       THEN /\ resp' = Reply("update_member_role", u, x, NoView, Deny(400, "owner_role_fixed", <<>>), {})
            /\ UNCHANGED <<db, inflight>>
       ELSE IF role = NoRole
       THEN /\ resp' = Reply("update_member_role", u, x, NoView, Deny(400, "role_not_found", <<>>), {})
            /\ UNCHANGED <<db, inflight>>
       ELSE /\ roles' = rs
            /\ memberships' = [memberships EXCEPT ![x].role_key = role_key]
            /\ tablePerms' = GrantTablePermissions(tablePerms, x, role)
            /\ viewPerms' = GrantViewPermissions(viewPerms, x, role)
            /\ resp' = Reply("update_member_role", u, x, NoView,
                             Success("update_member_role", u, "user", x), {})
            /\ UNCHANGED <<views, records, fields, recordValues, inflight>>

\* Checks of a removal that lets whoever manages members remove an owner
\* while another owner remains.
RemoveMemberGateByManager(u, x) ==
    AndThen(GetCurrentTenant(u),
    AndThen(EnsureManageMembersAllowed(u),
    AndThen(IF u = x THEN Deny(400, "cannot_remove_self", <<>>) ELSE Ok,
    AndThen(IF memberships[x] = NoMember THEN Deny(404, "member_not_found", <<>>) ELSE Ok,
            IF memberships[x].role # "owner" THEN Ok
            ELSE IF Cardinality({y \in Users : memberships[y] # NoMember
                                               /\ memberships[y].role = "owner"}) <= 1
                 THEN Deny(400, "last_owner", <<>>)
            ELSE Ok))))

\* The checks of remove_member before the delete (main.py 572-593).
RemoveMemberGate(u, x) ==
    AndThen(GetCurrentTenant(u),
    AndThen(EnsureManageMembersAllowed(u),
    AndThen(IF u = x THEN Deny(400, "cannot_remove_self", <<>>) ELSE Ok,
    AndThen(IF memberships[x] = NoMember THEN Deny(404, "member_not_found", <<>>) ELSE Ok,
            IF memberships[x].role # "owner" THEN Ok
            ELSE IF memberships[u].role # "owner" THEN Deny(403, "owner_only_removes_owner", <<>>)
            ELSE IF Cardinality({y \in Users : memberships[y] # NoMember
                                               /\ memberships[y].role = "owner"}) <= 1
                 THEN Deny(400, "last_owner", <<>>)
            ELSE Ok))))

\* DELETE /tenants/current/members/{member_user_id}: deletes the membership
\* row and nothing else.
RemoveMember(u, x) ==
    LET g == RemoveMemberGate(u, x)
    IN IF g.status # 200
       THEN /\ resp' = Reply("remove_member", u, x, NoView, g, {})
            /\ UNCHANGED <<db, inflight>>
       ELSE /\ memberships' = [memberships EXCEPT ![x] = NoMember]
            /\ resp' = Reply("remove_member", u, x, NoView, Success("remove_member", u, "user", x), {})
            /\ UNCHANGED <<roles, tablePerms, viewPerms, views, records, fields,
                           recordValues, inflight>>

\* ------------------------------------------------------------ tenant roles

\* payload.<key> of a TenantRolePatchIn: None when the request leaves it out.
PatchHas(payload, key) == key \in DOMAIN payload

\* The TenantRoleModel row create_tenant_role builds (main.py 653-662): the
\* payload's flags as they are.
NewTenantRole(payload) ==
    [can_manage_members |-> payload.canManageMembers,
     can_manage_permissions |-> payload.canManagePermissions,
     default_table_can_read |-> payload.defaultTableCanRead,
     default_table_can_write |-> payload.defaultTableCanWrite]

\* The checks of create_tenant_role; key and name are the stripped strings.
CreateTenantRoleGate(u, key, name) ==
    AndThen(RequireOwnerRole(u),
    AndThen(IF key = "" \/ name = "" THEN Deny(400, "role_key_or_name_empty", <<>>) ELSE Ok,
    AndThen(IF key = "owner" THEN Deny(400, "owner_key_reserved", <<>>) ELSE Ok,
            IF RoleMapGet(roles, key) # NoRole THEN Deny(400, "role_key_exists", <<>>) ELSE Ok)))

\* POST /tenants/current/roles
CreateTenantRole(u, key, name, payload) ==
    LET g == CreateTenantRoleGate(u, key, name)
    IN IF g.status # 200
       THEN /\ resp' = Reply("create_tenant_role", u, key, NoView, g, [payload |-> payload])
            /\ UNCHANGED <<db, inflight>>
       ELSE /\ roles' = [roles EXCEPT ![key] = NewTenantRole(payload)]
            /\ resp' = Reply("create_tenant_role", u, key, NoView,
                             Success("create_tenant_role", u, "role", key), [payload |-> payload])
            /\ UNCHANGED <<memberships, tablePerms, viewPerms, views, records, fields,
                           recordValues, inflight>>

\* The two default flags after a patch that assigns the write default
\* without touching the read default.
PatchedDefaultsWriteOnly(role, payload) ==
    LET read1 == IF PatchHas(payload, "defaultTableCanRead")
                 THEN payload.defaultTableCanRead \/ role.default_table_can_write
                 ELSE role.default_table_can_read
        write2 == IF PatchHas(payload, "defaultTableCanWrite")
                  THEN payload.defaultTableCanWrite ELSE role.default_table_can_write
    IN [default_table_can_read |-> read1, default_table_can_write |-> write2]

\* The two default flags after patch_tenant_role's assignments, in program
\* order (main.py 702-707): the read default first, against the write
\* default the role still has, then the write default, which sets read.
PatchedDefaults(role, payload) ==
    LET read1 == IF PatchHas(payload, "defaultTableCanRead")
                 THEN payload.defaultTableCanRead \/ role.default_table_can_write
                 ELSE role.default_table_can_read
        write2 == IF PatchHas(payload, "defaultTableCanWrite")
                  THEN payload.defaultTableCanWrite ELSE role.default_table_can_write
        read2 == IF PatchHas(payload, "defaultTableCanWrite") /\ write2 THEN TRUE ELSE read1
    IN [default_table_can_read |-> read2, default_table_can_write |-> write2]

\* The checks of patch_tenant_role; a name the payload carries is the
\* stripped string.
PatchTenantRoleGate(u, role_key, payload) ==
    AndThen(RequireOwnerRole(u),
    AndThen(IF role_key \in {"owner", "member"} THEN Deny(400, "builtin_role_fixed", <<>>) ELSE Ok,
    AndThen(IF RoleMapGet(roles, role_key) = NoRole THEN Deny(404, "role_not_found", <<>>) ELSE Ok,
            IF PatchHas(payload, "name") /\ payload.name = ""
            THEN Deny(400, "role_name_empty", <<>>) ELSE Ok)))

\* PATCH /tenants/current/roles/{role_key}
PatchTenantRole(u, role_key, payload) ==
    LET g == PatchTenantRoleGate(u, role_key, payload)
    IN IF g.status # 200
       THEN /\ resp' = Reply("update_tenant_role", u, role_key, NoView, g, [payload |-> payload])
            /\ UNCHANGED <<db, inflight>>
       ELSE LET role == roles[role_key]
                d == PatchedDefaults(role, payload)
            IN /\ roles' = [roles EXCEPT ![role_key] =
                     [can_manage_members |->
                          IF PatchHas(payload, "canManageMembers")
                          THEN payload.canManageMembers ELSE role.can_manage_members,
                      can_manage_permissions |->
                          IF PatchHas(payload, "canManagePermissions")
                          THEN payload.canManagePermissions ELSE role.can_manage_permissions,
                      default_table_can_read |-> d.default_table_can_read,
                      default_table_can_write |-> d.default_table_can_write]]
               /\ resp' = Reply("update_tenant_role", u, role_key, NoView,
                                Success("update_tenant_role", u, "role", role_key),
                                [payload |-> payload, before |-> role])
               /\ UNCHANGED <<memberships, tablePerms, viewPerms, views, records, fields,
                              recordValues, inflight>>

\* Checks of a role deletion that does not count the memberships using the
\* key.
DeleteTenantRoleGateUncounted(u, role_key) ==
    AndThen(RequireOwnerRole(u),
    AndThen(IF role_key \in {"owner", "member"} THEN Deny(400, "builtin_role_fixed", <<>>) ELSE Ok,
            IF RoleMapGet(roles, role_key) = NoRole THEN Deny(404, "role_not_found", <<>>) ELSE Ok))

\* The checks of delete_tenant_role (main.py 733-750): in_use counts the
\* tenant's memberships whose role_key is the key.
DeleteTenantRoleGate(u, role_key) ==
    AndThen(RequireOwnerRole(u),
    AndThen(IF role_key \in {"owner", "member"} THEN Deny(400, "builtin_role_fixed", <<>>) ELSE Ok,
    AndThen(IF RoleMapGet(roles, role_key) = NoRole THEN Deny(404, "role_not_found", <<>>) ELSE Ok,
            IF Cardinality({x \in Users : memberships[x] # NoMember
                                          /\ memberships[x].role_key = role_key}) > 0
            THEN Deny(400, "role_in_use", <<>>) ELSE Ok)))

\* DELETE /tenants/current/roles/{role_key}
DeleteTenantRole(u, role_key) ==
    LET g == DeleteTenantRoleGate(u, role_key)
    IN IF g.status # 200
       THEN /\ resp' = Reply("delete_tenant_role", u, role_key, NoView, g, {})
            /\ UNCHANGED <<db, inflight>>
       ELSE /\ roles' = [roles EXCEPT ![role_key] = NoRole]
            /\ resp' = Reply("delete_tenant_role", u, role_key, NoView,
                             Success("delete_tenant_role", u, "role", role_key), {})
            /\ UNCHANGED <<memberships, tablePerms, viewPerms, views, records, fields,
                           recordValues, inflight>>

\* ------------------------------------------------------------ initial state

NoRequest ==
    [op |-> "none", user |-> "none", target |-> "none", view |-> NoView,
     status |-> 0, detail |-> "none", audit |-> <<>>, data |-> {}]

\* The requests that may be in flight at once.
RequestSlots == {"a", "b"}

\* A slot no request occupies.
NoInflight == [op |-> "none"]

\* No request is in flight: every handler above runs from its first read to
\* its commit as one step.
NoRequests == [i \in RequestSlots |-> NoInflight]

\* No record holds a value.
NoValues == [r \in RecordPool |-> [f \in FieldPool |-> Null]]

\* The seeded store: t1 with view v1, record r1 and field f1, t2 with view
\* v3, and another tenant's table tX with its view, record and field.  The
\* tenant has the built-in roles.
SeededResources ==
    /\ roles = EnsureBuiltinRoles([k \in RoleKeys |-> NoRole])
    /\ views = {"v1", "v3", "vX"}
    /\ records = {"r1", "rX"}
    /\ fields = {"f1", "fX"}
    /\ recordValues = NoValues
    /\ inflight = NoRequests
    /\ resp = NoRequest

\* A stored row with every flag off: what a demoted or hand-edited row holds.
LowTablePermission == WithButtons(NewTablePermission(FALSE, FALSE), [k \in ButtonKeys |-> FALSE])

\* The memberships of the seeded tenant: u1 is its owner, u2 a member with
\* role key k, u3 no member.
SeededMemberships(k) ==
    [u \in Users |->
        CASE u = "u1" -> [role |-> "owner", role_key |-> "owner"]
          [] u = "u2" -> [role |-> "member", role_key |-> k]
          [] OTHER -> NoMember]

\* The rows the seed gives the owner on every view of the tenant.
SeededViewPerms ==
    [v \in ViewPool |-> [u \in Users |->
        IF u = "u1" /\ v \in {"v1", "v3"} THEN NewViewPermission(TRUE, TRUE) ELSE NoRow]]

\* The owner's row on the tables: the seeded read/write row, no row, or a
\* stale row with every flag off.  u2 has no row yet.
OwnerTablePerms(owner_row) ==
    [t \in OwnTables |-> [u \in Users |-> IF u = "u1" THEN owner_row ELSE NoRow]]

\* The bulk replace and the role defaults on the rows of table t1 and of
\* view v1, requested by the owner, the plain member u2 and the non-member
\* u3.  The owner's table row starts seeded, missing, or stale.
Init ==
    /\ SeededResources
    /\ memberships = SeededMemberships("member")
    /\ \E owner_row \in {NewTablePermission(TRUE, TRUE), NoRow, LowTablePermission} :
          tablePerms = OwnerTablePerms(owner_row)
    /\ viewPerms = SeededViewPerms

Next ==
    \/ \E u \in Users :
          \E items \in PayloadsFor(ManageTableGate(u, "t1"), Payloads) :
             UpdateTablePermissions(u, "t1", items)
    \/ \E u \in Users :
          \E items \in PayloadsFor(ManageViewGate(u, "v1"), Payloads) :
             UpdateViewPermissions(u, "v1", items)
    \/ \E u \in Users : ApplyTablePermissionsByRoleDefaults(u, "t1")
    \/ \E u \in Users : ApplyViewPermissionsByRoleDefaults(u, "v1")

Spec == Init /\ [][Next]_vars

\* The rows the owner holds on the views: the seeded read/write rows, no
\* row, or stale rows with both flags off.
OwnerViewPerms(owner_row) ==
    [v \in ViewPool |-> [u \in Users |->
        IF u = "u1" /\ v \in {"v1", "v3"} THEN owner_row ELSE NoRow]]

\* The access gates on the read and write paths of a table's data: the
\* fields listing, the records query, record creation and deletion, with the
\* table and view rows of the member u2 set by one-item replaces.  The
\* owner's own rows are the seeded ones, missing, or stale.
InitAccess ==
    /\ SeededResources
    /\ memberships = SeededMemberships("member")
    /\ \E stale \in {"seeded", "missing", "low"} :
          /\ tablePerms = OwnerTablePerms(CASE stale = "seeded" -> NewTablePermission(TRUE, TRUE)
                                            [] stale = "missing" -> NoRow
                                            [] OTHER -> LowTablePermission)
          /\ viewPerms = OwnerViewPerms(CASE stale = "seeded" -> NewViewPermission(TRUE, TRUE)
                                          [] stale = "missing" -> NoRow
                                          [] OTHER -> NewViewPermission(FALSE, FALSE))

\* The tables and views a read names: its own, and ones it must not reach.
QueryTableInputs == {"t1", "tX"}

QueryViewInputs == {NoView, "v1", "v3", "vX"}

\* filterLogic values: a valid one and an invalid one.
FilterLogicInputs == {"and", "xor"}

NextAccess ==
    \/ \E u \in Users, t \in QueryTableInputs : GetFields(u, t)
    \/ \E u \in Users, t \in QueryTableInputs, view_id \in QueryViewInputs,
          filter_logic \in FilterLogicInputs : QueryRecords(u, t, view_id, filter_logic)
    \/ \E u \in Users, t \in QueryTableInputs : CreateRecord(u, t)
    \/ \E u \in Users, r \in RecordInputs : DeleteRecord(u, r)
    \/ \E u \in Users :
          \E items \in PayloadsFor(ManageTableGate(u, "t1"), SinglePayloads) :
             UpdateTablePermissions(u, "t1", items)
    \/ \E u \in Users :
          \E items \in PayloadsFor(ManageViewGate(u, "v1"), SinglePayloads) :
             UpdateViewPermissions(u, "v1", items)

SpecAccess == InitAccess /\ [][NextAccess]_vars

\* The button gate: record creation, record deletion and the import, with
\* the member's base row set by one-item replaces and its button flags by
\* button updates.
InitButtons ==
    /\ SeededResources
    /\ memberships = SeededMemberships("member")
    /\ tablePerms = OwnerTablePerms(NewTablePermission(TRUE, TRUE))
    /\ viewPerms = SeededViewPerms

\* The access gates of the import; a request they refuse is refused
\* whatever it carries.
ImportAccessGate(u, t) ==
    AndThen(GetCurrentTenant(u),
    AndThen(EnsureTableAccess(u, t, "write"),
            EnsureTableButtonPermission(u, t, "can_import_records")))

NextButtons ==
    \/ \E u \in Users :
          \E items \in PayloadsFor(ManageTableGate(u, "t1"), SinglePayloads) :
             UpdateTablePermissions(u, "t1", items)
    \/ \E u \in Users, t \in ManagedTableInputs :
          \E items \in PayloadsFor(ManageTableGate(u, t), ButtonPayloads) :
             UpdateTableButtonPermissions(u, t, items)
    \/ \E u \in Users, t \in ManagedTableInputs : CreateRecord(u, t)
    \/ \E u \in Users, r \in RecordInputs : DeleteRecord(u, r)
    \/ \E u \in Users, t \in ManagedTableInputs :
          \E payload \in IF ImportAccessGate(u, t).status = 200 THEN ImportPayloads
                         ELSE {[viewName |-> "imported", fields |-> <<"a">>, records |-> 0]} :
             ImportViewBundle(u, t, payload)

SpecButtons == InitButtons /\ [][NextButtons]_vars

\* The rows a membership of u2 comes with: an owner's seeded read/write
\* rows, or the rows create_member granted from the role's defaults.
SecondMemberPerms(membership) ==
    LET flags == IF membership.role = "owner" THEN [can_read |-> TRUE, can_write |-> TRUE]
                 ELSE RoleDefaults(BuiltinRole(membership.role_key))
    IN [table |-> NewTablePermission(flags.can_read, flags.can_write),
        view |-> NewViewPermission(flags.can_read, flags.can_write)]

\* The membership lifecycle.  Besides the owner u1 the tenant holds u2: a
\* second owner (remove_member counts the owners, main.py 587-593), a member
\* with the managing role "admin", or a plain member.  u3 is not a member.
InitMembers ==
    /\ SeededResources
    /\ \E membership \in {[role |-> "owner", role_key |-> "owner"],
                          [role |-> "member", role_key |-> "admin"],
                          [role |-> "member", role_key |-> "member"]} :
          /\ memberships = [u \in Users |->
                CASE u = "u1" -> [role |-> "owner", role_key |-> "owner"]
                  [] u = "u2" -> membership
                  [] OTHER -> NoMember]
          /\ tablePerms = [t \in OwnTables |-> [u \in Users |->
                CASE u = "u1" -> NewTablePermission(TRUE, TRUE)
                  [] u = "u2" -> SecondMemberPerms(membership).table
                  [] OTHER -> NoRow]]
          /\ viewPerms = [v \in ViewPool |-> [u \in Users |->
                IF v \notin {"v1", "v3"} THEN NoRow
                ELSE CASE u = "u1" -> NewViewPermission(TRUE, TRUE)
                       [] u = "u2" -> SecondMemberPerms(membership).view
                       [] OTHER -> NoRow]]

\* Role keys a request names: two built-in ones and one the tenant lacks.
RoleKeyInputs == {"member", "admin", "qa"}

NextMembers ==
    \/ \E u, x \in Users, role_key \in RoleKeyInputs : CreateMember(u, x, role_key)
    \/ \E u, x \in Users, role_key \in RoleKeyInputs : UpdateMemberRole(u, x, role_key)
    \/ \E u, x \in Users : RemoveMember(u, x)
    \/ \E u \in Users :
          \E items \in PayloadsFor(ManageTableGate(u, "t1"), SinglePayloads) :
             UpdateTablePermissions(u, "t1", items)

SpecMembers == InitMembers /\ [][NextMembers]_vars

\* Probes: every handler that resolves a table, view, record or field id,
\* called with ids of the tenant, of another tenant, and of no resource.
InitProbe ==
    /\ SeededResources
    /\ memberships = SeededMemberships("member")
    /\ tablePerms = OwnerTablePerms(NewTablePermission(TRUE, TRUE))
    /\ viewPerms = SeededViewPerms

\* The views a probing request names.
ProbeViewInputs == {"v1", "vX", GhostView}

NextProbe ==
    \/ \E u \in Users, t \in TableInputs : GetFields(u, t)
    \/ \E u \in Users, t \in TableInputs, view_id \in ProbeViewInputs \cup {NoView} :
          QueryRecords(u, t, view_id, "and")
    \/ \E u \in Users, r \in RecordInputs : DeleteRecord(u, r)
    \/ \E u \in Users, f \in FieldInputs : DeleteField(u, f)
    \/ \E u \in Users, v \in ViewInputs : DeleteView(u, v)
    \/ \E u \in Users, t \in TableInputs :
          \E items \in PayloadsFor(ManageTableGate(u, t), SinglePayloads) :
             UpdateTablePermissions(u, t, items)
    \/ \E u \in Users, v \in ProbeViewInputs :
          \E items \in PayloadsFor(ManageViewGate(u, v), SinglePayloads) :
             UpdateViewPermissions(u, v, items)

SpecProbe == InitProbe /\ [][NextProbe]_vars

\* ------------------------------------------------------- the query engine
\* default page size of both query routes
DefaultPageSize == 100

ScoringRecords == {"q1", "q2", "q3"}

ScoreValues == {Null, Num(10), Num(90)}

NameValues == {Null, Str(<<"a">>), Str(<<"B">>)}

\* The stored values of the scoring table t2: board[r] gives record r its
\* score and its name, each possibly null.
ScoreBoard(board) ==
    [r \in RecordPool |->
        IF r \in DOMAIN board
        THEN [f \in FieldPool |->
                 CASE f = "fScore" -> board[r].score
                   [] f = "fName" -> board[r].name
                   [] OTHER -> Null]
        ELSE NoValues[r]]

\* The seeded scoring table: fields name:text and score:number, the records
\* of rs.
SeededScoring(rs) ==
    /\ roles = EnsureBuiltinRoles([k \in RoleKeys |-> NoRole])
    /\ memberships = SeededMemberships("member")
    /\ tablePerms = OwnerTablePerms(NewTablePermission(TRUE, TRUE))
    /\ viewPerms = SeededViewPerms
    /\ views = {"v1", "v3", "vX"}
    /\ records = {"r1", "rX"} \cup rs
    /\ fields = {"f1", "fX", "fName", "fScore"}
    /\ inflight = NoRequests
    /\ resp = NoRequest

\* A request without filters, sorts or cursor.
PlainQuery ==
    [filters |-> <<>>, sorts |-> <<>>, filterLogic |-> "and", cursor |-> <<>>,
     pageSize |-> DefaultPageSize]

\* Sort keys a request may send: either field in either direction, in the
\* spellings lower() folds, without a direction, and without a usable
\* fieldId.
SortItems ==
    {[fieldId |-> FieldIdValue(f), direction |-> d] : f \in {"fScore", "fName"}, d \in {"asc", "desc"}}
    \cup {[fieldId |-> FieldIdValue("fScore"), direction |-> "DESC"],
          [fieldId |-> FieldIdValue("fName")],
          [fieldId |-> Str(<<>>), direction |-> "desc"]}

SortInputs == SeqsUpTo(SortItems, MaxSortKeys)

\* Sorted queries on the scoring table, whose three records hold every
\* combination of scores and names: by the owner through view v3, and by the
\* member u2, who holds no row.
InitSort ==
    /\ SeededScoring(ScoringRecords)
    /\ \E board \in [ScoringRecords -> [score : ScoreValues, name : NameValues]] :
          recordValues = ScoreBoard(board)

\* A query changes nothing in the store, so every reply is one step from the
\* initial state: a behaviour takes one request.
NextSort ==
    /\ resp = NoRequest
    /\ \E u \in {"u1", "u2"}, sorts \in SortInputs :
          QueryRecordsPage(u, "t2", "v3", [PlainQuery EXCEPT !.sorts = sorts])

SpecSort == InitSort /\ [][NextSort]_vars

\* Names that tell upper and lower case apart.
MixedNameValues == {Null, Str(<<"a", "B">>)}

\* Filters a request may send: on the score and on the name, with and
\* without an operator, on an id that names no field, and with a fieldId
\* that is missing, not a string, empty, or one space.
FilterItems ==
    {[fieldId |-> FieldIdValue("fScore"), op |-> "gte", value |-> Num(50)],
     [fieldId |-> FieldIdValue("fScore"), op |-> "empty"],
     [fieldId |-> FieldIdValue("fName"), value |-> Str(<<"b">>)],
     [fieldId |-> FieldIdValue("fName"), op |-> "neq", value |-> Str(<<"a", "B">>)],
     [fieldId |-> FieldIdValue(GhostField), op |-> "empty"],
     [op |-> "eq", value |-> Num(10)],
     [fieldId |-> Num(1), op |-> "eq", value |-> Num(10)],
     [fieldId |-> Str(<<>>), op |-> "eq", value |-> Num(10)],
     [fieldId |-> Str(<<" ">>), op |-> "contains", value |-> Str(<<"b">>)]}

FilterInputs == SeqsUpTo(FilterItems, MaxFilters)

\* The sort of the scoring scenario.
ScoreDescending == <<[fieldId |-> FieldIdValue("fScore"), direction |-> "desc"]>>

\* Filtered queries by the owner on the scoring table, unsorted and sorted
\* by score descending, under both filter logics.
InitFilter ==
    /\ SeededScoring(ScoringRecords)
    /\ \E board \in [ScoringRecords -> [score : ScoreValues, name : MixedNameValues]] :
          recordValues = ScoreBoard(board)

NextFilter ==
    /\ resp = NoRequest
    /\ \E filters \in FilterInputs, logic \in {"and", "OR"}, sorts \in {<<>>, ScoreDescending} :
          QueryRecordsPage("u1", "t2", "v3",
              [PlainQuery EXCEPT !.filters = filters, !.filterLogic = logic, !.sorts = sorts])

SpecFilter == InitFilter /\ [][NextFilter]_vars

\* Cursors a request may send: none, the decimal strings of the offsets up
\* to MaxOffset of either sign, a signed one, and two that int() refuses.
CursorInputs ==
    {<<>>, <<"+", "1">>, <<"x">>, <<"1", ".", "0">>}
        \cup {StrOfInt(k) : k \in (0 - MaxOffset) .. MaxOffset}

\* Page sizes a request may send: around both ends of the allowed range.
PageSizeInputs == {MinPageSize - 1, MinPageSize, 2, 3, MaxPageSize, MaxPageSize + 1}

\* Paged queries by the owner on the scoring table holding none to three
\* records, with and without a filter and a sort.
InitPage ==
    \E rs \in SUBSET ScoringRecords :
       /\ SeededScoring(rs)
       /\ \E board \in [rs -> [score : {Null, Num(90)}, name : {Str(<<"a">>)}]] :
             recordValues = ScoreBoard(board)

NextPage ==
    /\ resp = NoRequest
    /\ \E cursor \in CursorInputs, page_size \in PageSizeInputs,
          filters \in {<<>>, <<[fieldId |-> FieldIdValue("fScore"), op |-> "not_empty"]>>},
          sorts \in {<<>>, ScoreDescending} :
          QueryRecordsPage("u1", "t2", "v3",
              [PlainQuery EXCEPT !.cursor = cursor, !.pageSize = page_size,
                                 !.filters = filters, !.sorts = sorts])

SpecPage == InitPage /\ [][NextPage]_vars

\* Names a metric may run over: not a number, a number in digits, blank.
MetricNameValues == {Str(<<"a">>), Str(<<"1", "2">>), Str(<<" ">>)}

\* The metric widgets the tenant stores: bound to the scoring table or to
\* none, over the score, the name or no field, with each aggregation.
MetricWidgets ==
    {[table_id |-> t, field_ids |-> ids, aggregation |-> a] :
        t \in {"t2", NoTable},
        ids \in {<<>>, <<FieldIdValue("fScore")>>, <<FieldIdValue("fName"), FieldIdValue("fScore")>>},
        a \in {"", "sum", "avg"}}

\* Metric widget data requested by the owner and by the member u2, who may
\* not read the table, over none to three records.
InitMetric ==
    \E rs \in SUBSET ScoringRecords :
       /\ SeededScoring(rs)
       /\ \E board \in [rs -> [score : ScoreValues, name : MetricNameValues]] :
             recordValues = ScoreBoard(board)

NextMetric ==
    /\ resp = NoRequest
    /\ \E u \in {"u1", "u2"}, widget \in MetricWidgets, override \in {"", "avg"} :
          GetDashboardWidgetData(u, widget, override)

SpecMetric == InitMetric /\ [][NextMetric]_vars

\* ------------------------------------------------------- member references
\* A user id no UserModel row carries.
GhostUser == "u0"

\* Values a request may write to the member field: the id of each user, an
\* id of no user, a number, and null.
MemberValueInputs ==
    {UserIdValue(x) : x \in Users \cup {GhostUser}} \cup {Num(1), Null}

\* Patches of the member field alone, and of the name followed by the
\* member field.
MemberPatches ==
    {<<[field_id |-> "fMember", value |-> v]>> : v \in MemberValueInputs}
    \cup {<<[field_id |-> "fName", value |-> Str(<<"a">>)],
            [field_id |-> "fMember", value |-> UserIdValue(x)]>> : x \in {"u1", "u2"}}

\* The scoring table with its member column and one record; the member u2
\* starts with a row on it that grants read, or read and write.  Bulk
\* replaces on the table's rows alternate with writes to the record.
InitMemberField ==
    /\ roles = EnsureBuiltinRoles([k \in RoleKeys |-> NoRole])
    /\ memberships = SeededMemberships("member")
    /\ \E can_write \in BOOLEAN :
          tablePerms = [t \in OwnTables |-> [u \in Users |->
              CASE u = "u1" -> NewTablePermission(TRUE, TRUE)
                [] u = "u2" /\ t = "t2" -> NewTablePermission(TRUE, can_write)
                [] OTHER -> NoRow]]
    /\ viewPerms = SeededViewPerms
    /\ views = {"v1", "v3", "vX"}
    /\ records = {"r1", "rX", "q1"}
    /\ fields = {"f1", "fX", "fName", "fMember"}
    /\ recordValues = NoValues
    /\ inflight = NoRequests
    /\ resp = NoRequest

NextMemberField ==
    \/ \E u \in Users :
          \E items \in PayloadsFor(ManageTableGate(u, "t2"), SinglePayloads) :
             UpdateTablePermissions(u, "t2", items)
    \/ \E u \in Users, r \in {"q1", GhostRecord}, patch \in MemberPatches :
          PatchRecord(u, r, patch)

SpecMemberField == InitMemberField /\ [][NextMemberField]_vars

\* ------------------------------------------------------------------ views
\* Views are created, imported and deleted on t1 and t2 by the owner and by
\* the member u2, who holds no row.
InitViews ==
    /\ SeededResources
    /\ memberships = SeededMemberships("member")
    /\ tablePerms = OwnerTablePerms(NewTablePermission(TRUE, TRUE))
    /\ viewPerms = SeededViewPerms

NextViews ==
    \/ \E u \in {"u1", "u2"}, t \in {"t1", "t2"} : CreateView(u, t)
    \/ \E u \in {"u1", "u2"}, t \in {"t1", "t2"} :
          \E payload \in PayloadsFor(ImportAccessGate(u, t), ImportPayloads) :
             ImportViewBundle(u, t, payload)
    \/ \E u \in {"u1", "u2"}, v \in ViewInputs : DeleteView(u, v)

SpecViews == InitViews /\ [][NextViews]_vars

\* ------------------------------------------------------------ tenant roles
\* Role keys a role request names: the custom key, a built-in key that may
\* be deleted, the two fixed keys, and the empty key.
TenantRoleKeyInputs == {"qa", "admin", "member", "owner", ""}

\* Bodies of create_tenant_role: the schema's defaults, and a role that
\* manages members and writes without the read default.
TenantRoleCreateInputs ==
    {[canManageMembers |-> FALSE, canManagePermissions |-> FALSE,
      defaultTableCanRead |-> TRUE, defaultTableCanWrite |-> FALSE],
     [canManageMembers |-> TRUE, canManagePermissions |-> FALSE,
      defaultTableCanRead |-> FALSE, defaultTableCanWrite |-> TRUE]}

\* Roles and memberships: members are created and moved between roles
\* while the owner creates and deletes roles.  u2 starts as a member with
\* the key "member" or "admin"; u3 is no member.
InitRoles ==
    /\ SeededResources
    /\ \E k \in {"member", "admin"} :
          /\ memberships = SeededMemberships(k)
          /\ tablePerms = [t \in OwnTables |-> [u \in Users |->
                CASE u = "u1" -> NewTablePermission(TRUE, TRUE)
                  [] u = "u2" -> SecondMemberPerms(memberships[u]).table
                  [] OTHER -> NoRow]]
          /\ viewPerms = [v \in ViewPool |-> [u \in Users |->
                IF v \notin {"v1", "v3"} THEN NoRow
                ELSE CASE u = "u1" -> NewViewPermission(TRUE, TRUE)
                       [] u = "u2" -> SecondMemberPerms(memberships[u]).view
                       [] OTHER -> NoRow]]

NextRoles ==
    \/ \E u \in Users, x \in {"u2", "u3"}, role_key \in RoleKeyInputs :
          CreateMember(u, x, role_key)
    \/ \E u \in Users, x \in {"u2", "u3"}, role_key \in RoleKeyInputs :
          UpdateMemberRole(u, x, role_key)
    \/ \E u \in Users, key \in TenantRoleKeyInputs, name \in {"", "n"},
          payload \in TenantRoleCreateInputs : CreateTenantRole(u, key, name, payload)
    \/ \E u \in Users, role_key \in TenantRoleKeyInputs : DeleteTenantRole(u, role_key)

SpecRoles == InitRoles /\ [][NextRoles]_vars

\* ------------------------------------------------------ requests in flight
\* Requests run in parallel threads, each on its own Session (db.py 22-27).
\* The driver opens no transaction for a SELECT, so what a request read may
\* be changed by another request's commit before its own flush and commit.
\* A handler is two steps here: its checks and reads, then its flush and
\* commit on the store as it is by then.

\* An in-flight update_table_permissions: existing_map holds the rows it
\* read, gone the users whose row of existing_map another request deleted
\* since.  The memberships do not change while such a request is in flight.
ReadTablePermissions(u, t, items) ==
    [op |-> "update_table_permissions", user |-> u, target |-> t, items |-> items,
     existing_map |-> tablePerms[t], gone |-> {}]

\* update_table_permissions up to the read of existing (main.py 805-822).
BeginUpdateTablePermissions(i, u, t, items) ==
    LET gate == ManageTableGate(u, t)
        unknown_users == {item.userId : item \in Range(items)} \ {x \in Users : memberships[x] # NoMember}
    IN /\ inflight[i] = NoInflight
       /\ IF gate.status # 200
          THEN /\ resp' = Reply("update_table_permissions", u, t, NoView, gate, {})
               /\ UNCHANGED <<db, inflight>>
          ELSE IF unknown_users # {}
          THEN /\ resp' = Reply("update_table_permissions", u, t, NoView,
                                Deny(400, "unknown_users", <<>>), {})
               /\ UNCHANGED <<db, inflight>>
          ELSE /\ inflight' = [inflight EXCEPT ![i] = ReadTablePermissions(u, t, items)]
               /\ UNCHANGED <<db, resp>>

\* The flush of update_table_permissions (main.py 824-858) on the rows
\* `current` of the table: an UPDATE of the changed columns for each row of
\* existing_map whose flags the loop changed, an INSERT for each item
\* without a row in existing_map, a DELETE for each swept row.  Rows are
\* addressed by primary key: an UPDATE of a row that is gone raises
\* StaleDataError, a DELETE of one only warns, an INSERT for a user who has
\* a row by now breaks the unique constraint.  A failed flush rolls back.
FlushTableRows(current, req) ==
    LET keep_ids == {item.userId : item \in Range(req.items)}
        acc == UpsertItems([existing_map |-> req.existing_map, added |-> <<>>], req.items)
        swept == SweepRows(acc.existing_map, keep_ids)
        inserted == {acc.added[k].user_id : k \in DOMAIN acc.added}
        read == {x \in Users : req.existing_map[x] # NoRow}
        stale == \E x \in read \cap req.gone :
                    swept[x] # NoRow /\ swept[x] # req.existing_map[x]
        conflict == \/ UniqueViolation(acc.added)
                    \/ \E x \in inserted : current[x] # NoRow
    IN [failed |-> stale \/ conflict,
        detail |-> IF stale THEN "stale_data" ELSE "integrity_error",
        deleted |-> {x \in read \ req.gone : swept[x] = NoRow},
        rows |-> [x \in Users |->
            IF x \in read
            THEN IF x \in req.gone THEN current[x]
                 ELSE IF swept[x] = NoRow THEN NoRow
                 ELSE [current[x] EXCEPT
                         !.can_read = IF swept[x].can_read # req.existing_map[x].can_read
                                      THEN swept[x].can_read ELSE @,
                         !.can_write = IF swept[x].can_write # req.existing_map[x].can_write
                                       THEN swept[x].can_write ELSE @]
            ELSE IF x \in inserted
                 THEN LET k == CHOOSE n \in DOMAIN acc.added : acc.added[n].user_id = x
                      IN NewTablePermission(acc.added[k].flags.can_read,
                                            acc.added[k].flags.can_write)
            ELSE current[x]]]

\* What request j has read, once another request deleted the rows of
\* `deleted` on table t.
AfterDelete(req, t, deleted) ==
    IF req.op = "update_table_permissions" /\ req.target = t
    THEN [req EXCEPT !.gone = @ \cup {x \in deleted : req.existing_map[x] # NoRow}]
    ELSE req

\* update_table_permissions from its loops to db.commit() and the audit row.
CommitUpdateTablePermissions(i) ==
    /\ inflight[i].op = "update_table_permissions"
    /\ LET req == inflight[i]
           t == req.target
           res == FlushTableRows(tablePerms[t], req)
       IN IF res.failed
          THEN /\ resp' = Reply("update_table_permissions", req.user, t, NoView,
                                Deny(500, res.detail, <<>>), [items |-> req.items])
               /\ inflight' = [inflight EXCEPT ![i] = NoInflight]
               /\ UNCHANGED db
          ELSE /\ tablePerms' = [tablePerms EXCEPT ![t] = res.rows]
               /\ inflight' = [j \in RequestSlots |->
                                  IF j = i THEN NoInflight
                                  ELSE AfterDelete(inflight[j], t, res.deleted)]
               /\ resp' = Reply("update_table_permissions", req.user, t, NoView,
                                Success("update_table_permissions", req.user, "table", t),
                                [items |-> req.items])
               /\ UNCHANGED <<memberships, roles, viewPerms, views, records, fields,
                              recordValues>>

\* remove_member up to db.delete (main.py 572-593): the checks, the read of
\* the membership and the owner count.
BeginRemoveMember(i, u, x) ==
    LET g == RemoveMemberGate(u, x)
    IN /\ inflight[i] = NoInflight
       /\ IF g.status # 200
          THEN /\ resp' = Reply("remove_member", u, x, NoView, g, {})
               /\ UNCHANGED <<db, inflight>>
          ELSE /\ inflight' = [inflight EXCEPT ![i] =
                                  [op |-> "remove_member", user |-> u, target |-> x]]
               /\ UNCHANGED <<db, resp>>

\* remove_member's db.delete(membership), db.commit() and audit row
\* (main.py 594-607).  The DELETE of a row that is gone only warns.
CommitRemoveMember(i) ==
    /\ inflight[i].op = "remove_member"
    /\ LET req == inflight[i]
       IN /\ memberships' = [memberships EXCEPT ![req.target] = NoMember]
          /\ inflight' = [inflight EXCEPT ![i] = NoInflight]
          /\ resp' = Reply("remove_member", req.user, req.target, NoView,
                           Success("remove_member", req.user, "user", req.target),
                           [request |-> req])
          /\ UNCHANGED <<roles, tablePerms, viewPerms, views, records, fields, recordValues>>

\* Two members besides the owner; u2 holds a row on t1 or none.
InitRace ==
    /\ SeededResources
    /\ memberships = [u \in Users |->
          IF u = "u1" THEN [role |-> "owner", role_key |-> "owner"]
          ELSE [role |-> "member", role_key |-> "member"]]
    /\ \E row \in {NoRow, NewTablePermission(TRUE, FALSE)} :
          tablePerms = [t \in OwnTables |-> [u \in Users |->
              CASE u = "u1" -> NewTablePermission(TRUE, TRUE)
                [] u = "u2" /\ t = "t1" -> row
                [] OTHER -> NoRow]]
    /\ viewPerms = SeededViewPerms

\* Targets of the racing replaces: no item, or one item that gives a member
\* read or write access.
RacePayloads ==
    {<<>>} \cup {<<item>> : item \in {it \in Items : it.userId \in {"u2", "u3"} /\ it.canRead}}

\* The owner's replaces on t1, up to two in flight, and a member's refused
\* one.
NextRace ==
    \/ \E i \in RequestSlots, u \in {"u1", "u2"} :
          \E items \in PayloadsFor(ManageTableGate(u, "t1"), RacePayloads) :
             BeginUpdateTablePermissions(i, u, "t1", items)
    \/ \E i \in RequestSlots : CommitUpdateTablePermissions(i)

SpecRace == InitRace /\ [][NextRace]_vars

\* Two owners and a member: removals, up to two in flight.
InitOwnerRace ==
    /\ SeededResources
    /\ memberships = [u \in Users |->
          IF u \in {"u1", "u2"} THEN [role |-> "owner", role_key |-> "owner"]
          ELSE [role |-> "member", role_key |-> "member"]]
    /\ tablePerms = [t \in OwnTables |-> [u \in Users |-> NewTablePermission(TRUE, TRUE)]]
    /\ viewPerms = [v \in ViewPool |-> [u \in Users |->
          IF v \in {"v1", "v3"} THEN NewViewPermission(TRUE, TRUE) ELSE NoRow]]

NextOwnerRace ==
    \/ \E i \in RequestSlots, u, x \in Users : BeginRemoveMember(i, u, x)
    \/ \E i \in RequestSlots : CommitRemoveMember(i)

SpecOwnerRace == InitOwnerRace /\ [][NextOwnerRace]_vars

\* ------------------------------------------------------------ access gates
\* The three permission gates called on the tenant's own tables and views,
\* for the owner, the member u2 and the non-member u3, with u2's rows on t1
\* and v1 drawn from the rows the permission handlers can store.
CheckTableAccess(u, t, access) ==
    /\ resp' = Reply("ensure_table_access", u, t, NoView, EnsureTableAccess(u, t, access),
                     [access |-> access])
    /\ UNCHANGED <<db, inflight>>

CheckViewAccess(u, v, access) ==
    /\ resp' = Reply("ensure_view_access", u, ViewTable[v], v,
                     EnsureViewAccess(u, v, access, NoTable), [access |-> access])
    /\ UNCHANGED <<db, inflight>>

CheckTableButtonPermission(u, t, button_key) ==
    /\ resp' = Reply("ensure_table_button_permission", u, t, NoView,
                     EnsureTableButtonPermission(u, t, button_key),
                     [button_key |-> button_key])
    /\ UNCHANGED <<db, inflight>>

InitGates ==
    /\ SeededResources
    /\ memberships = SeededMemberships("member")
    /\ \E table_row \in {NoRow, LowTablePermission, NewTablePermission(TRUE, FALSE),
                         NewTablePermission(TRUE, TRUE),
                         [NewTablePermission(TRUE, TRUE) EXCEPT !.can_create_record = FALSE]} :
          tablePerms = [t \in OwnTables |-> [u \in Users |->
              CASE u = "u1" -> NewTablePermission(TRUE, TRUE)
                [] u = "u2" /\ t = "t1" -> table_row
                [] OTHER -> NoRow]]
    /\ \E view_row \in {NoRow, NewViewPermission(FALSE, FALSE), NewViewPermission(TRUE, FALSE),
                        NewViewPermission(TRUE, TRUE)} :
          viewPerms = [v \in ViewPool |-> [u \in Users |->
              CASE u = "u1" /\ v \in {"v1", "v3"} -> NewViewPermission(TRUE, TRUE)
                [] u = "u2" /\ v = "v1" -> view_row
                [] OTHER -> NoRow]]

NextGates ==
    \/ \E u \in Users, t \in OwnTables, access \in {"read", "write"} :
          CheckTableAccess(u, t, access)
    \/ \E u \in Users, v \in {"v1", "v3"}, access \in {"read", "write"} :
          CheckViewAccess(u, v, access)
    \/ \E u \in Users, t \in OwnTables, button_key \in GatedButtonKeys :
          CheckTableButtonPermission(u, t, button_key)

SpecGates == InitGates /\ [][NextGates]_vars

\* ----------------------------------------------------------- failed writes
\* Values a write carries for a text field: a string, and a number, which
\* validate_value refuses.
WriteValueInputs == {Str(<<"a">>), Num(1)}

\* Entries of a values object: the table's text field f1, the field f2 an
\* import may have created, and another tenant's field.
WriteEntries == [field_id : {"f1", "f2", "fX"}, value : WriteValueInputs]

\* Values objects of one entry, and of two entries for different fields.
WritePatches ==
    {<<>>} \cup {<<e>> : e \in WriteEntries}
    \cup {<<d, e>> : d \in {x \in WriteEntries : x.field_id = "f1"},
                     e \in {x \in WriteEntries : x.field_id # "f1"}}

\* Import bundles of one or two text fields and up to MaxImportRecords
\* rows, each row a value per field.
TypedImportPayloads ==
    UNION {[viewName : {"imported"},
            fields : {[k \in 1 .. n |-> [name |-> IF k = 1 THEN "a" ELSE "b", type |-> "text"]]},
            records : SeqsUpTo([1 .. n -> WriteValueInputs], MaxImportRecords)]
           : n \in 1 .. MaxImportFields}

\* Writes to table t1 by the owner, by the member u2, who holds a
\* read/write row, and by the non-member u3.
InitWrites ==
    /\ SeededResources
    /\ memberships = SeededMemberships("member")
    /\ tablePerms = [t \in OwnTables |-> [u \in Users |->
          IF u \in {"u1", "u2"} THEN NewTablePermission(TRUE, TRUE) ELSE NoRow]]
    /\ viewPerms = SeededViewPerms

\* A request the access gates refuse is refused whatever it carries.
WriteGate(u, t) == AndThen(GetCurrentTenant(u), EnsureTableAccess(u, t, "write"))

NextWrites ==
    \/ \E u \in Users :
          \E initial_values \in PayloadsFor(WriteGate(u, "t1"), WritePatches) :
             CreateRecordWithValues(u, "t1", initial_values)
    \/ \E u \in Users, r \in {"r1", GhostRecord} :
          \E patch \in PayloadsFor(WriteGate(u, "t1"), WritePatches) :
             PatchRecord(u, r, patch)
    \/ \E u \in Users :
          \E payload \in IF WriteGate(u, "t1").status = 200 THEN TypedImportPayloads
                         ELSE {CHOOSE p \in TypedImportPayloads : TRUE} :
             ImportViewBundleTyped(u, "t1", payload)

SpecWrites == InitWrites /\ [][NextWrites]_vars

\* ------------------------------------------------------------ role patches
\* Bodies of create_tenant_role with each pair of default flags.
TenantRoleDefaultInputs ==
    [canManageMembers : {FALSE}, canManagePermissions : {FALSE},
     defaultTableCanRead : BOOLEAN, defaultTableCanWrite : BOOLEAN]

\* The records over the keys of S with the values each key may take.
PartialRecords(S, values) ==
    UNION {[K -> BOOLEAN] : K \in SUBSET S} \cap
    UNION {{p \in [K -> BOOLEAN] : \A k \in K : p[k] \in values[k]} : K \in SUBSET S}

\* Bodies of patch_tenant_role: each default flag absent, true or false,
\* canManageMembers absent or true, and one body with a blank name.
TenantRolePatchInputs ==
    PartialRecords({"defaultTableCanRead", "defaultTableCanWrite", "canManageMembers"},
                   [defaultTableCanRead |-> BOOLEAN, defaultTableCanWrite |-> BOOLEAN,
                    canManageMembers |-> {TRUE}])
    \cup {[name |-> ""]}

\* The owner and a member create, patch and delete roles; the tenant starts
\* with its built-in roles.
InitRolePatch ==
    /\ SeededResources
    /\ memberships = SeededMemberships("member")
    /\ tablePerms = OwnerTablePerms(NewTablePermission(TRUE, TRUE))
    /\ viewPerms = SeededViewPerms

NextRolePatch ==
    \/ \E u \in {"u1", "u2"}, payload \in TenantRoleDefaultInputs :
          CreateTenantRole(u, "qa", "n", payload)
    \/ \E u \in {"u1", "u2"}, role_key \in {"qa", "admin", "member", "owner"},
          payload \in TenantRolePatchInputs : PatchTenantRole(u, role_key, payload)
    \/ \E u \in {"u1", "u2"} : DeleteTenantRole(u, "qa")

SpecRolePatch == InitRolePatch /\ [][NextRolePatch]_vars

\* --------------------------------------------------------- permission rows
\* A role whose stored defaults write without reading (create_tenant_role
\* stores the flags as sent).
WriteOnlyRoleInput ==
    [canManageMembers |-> FALSE, canManagePermissions |-> FALSE,
     defaultTableCanRead |-> FALSE, defaultTableCanWrite |-> TRUE]

\* One import body: a view with one field and one record.
SmallImportInput == [viewName |-> "imported", fields |-> <<"a">>, records |-> 1]

\* Every handler that writes a permission row, called by the owner; the
\* member u2 also calls the ones its write row admits.  The owner's table row
\* starts seeded or missing, so that the button update creates it.
InitRows ==
    /\ SeededResources
    /\ memberships = SeededMemberships("member")
    /\ \E owner_row \in {NewTablePermission(TRUE, TRUE), NoRow} :
          tablePerms = OwnerTablePerms(owner_row)
    /\ viewPerms = SeededViewPerms

\* One-item bodies of the bulk replaces: the owner's or the member's row,
\* asked to write without reading or to read only; and the empty body.
RowPayloads ==
    {<<>>} \cup {<<[userId |-> x, canRead |-> ~w, canWrite |-> w]>> :
                    x \in {"u1", "u2"}, w \in BOOLEAN}

NextRows ==
    \/ \E u \in {"u1", "u2"} :
          \E items \in PayloadsFor(ManageTableGate(u, "t1"), RowPayloads) :
             UpdateTablePermissions(u, "t1", items)
    \/ \E items \in RowPayloads : UpdateViewPermissions("u1", "v1", items)
    \/ ApplyTablePermissionsByRoleDefaults("u1", "t1")
    \/ ApplyViewPermissionsByRoleDefaults("u1", "v1")
    \/ \E role_key \in {"member", "qa"} : CreateMember("u1", "u3", role_key)
    \/ \E role_key \in {"member", "qa"} : UpdateMemberRole("u1", "u2", role_key)
    \/ UpdateTableButtonPermissions("u1", "t1", <<[userId |-> "u1", buttons |-> AllButtons]>>)
    \/ CreateView("u1", "t1")
    \/ ImportViewBundle("u1", "t1", SmallImportInput)
    \/ CreateTenantRole("u1", "qa", "n", WriteOnlyRoleInput)

SpecRows == InitRows /\ [][NextRows]_vars

\* ------------------------------------------------------ button restrictions
\* The buttons of a member who may not create records.
NoCreateButtons == [AllButtons EXCEPT !["can_create_record"] = FALSE]

\* The member u2 holds a read/write row on t1 on which a button update has
\* set can_create_record to false.  The owner replaces the rows of t1,
\* applies the role defaults and moves u2 between roles; u2, once in the
\* managing role, changes its own role too.  Button updates only repeat the
\* restriction: none allows the button, and u2 never becomes an owner.
InitRestrict ==
    /\ SeededResources
    /\ memberships = SeededMemberships("member")
    /\ tablePerms = [t \in OwnTables |-> [u \in Users |->
          CASE u = "u1" -> NewTablePermission(TRUE, TRUE)
            [] u = "u2" /\ t = "t1" -> WithButtons(NewTablePermission(TRUE, TRUE), NoCreateButtons)
            [] u = "u2" -> NewTablePermission(TRUE, TRUE)
            [] OTHER -> NoRow]]
    /\ viewPerms = SeededViewPerms

NextRestrict ==
    \/ \E u \in {"u1", "u2"} :
          UpdateTableButtonPermissions(u, "t1", <<[userId |-> "u2", buttons |-> NoCreateButtons]>>)
    \/ \E u \in {"u1", "u2"} :
          \E items \in PayloadsFor(ManageTableGate(u, "t1"), RowPayloads) :
             UpdateTablePermissions(u, "t1", items)
    \/ \E u \in {"u1", "u2"} : ApplyTablePermissionsByRoleDefaults(u, "t1")
    \/ \E u \in {"u1", "u2"}, role_key \in {"member", "admin"} :
          UpdateMemberRole(u, "u2", role_key)

SpecRestrict == InitRestrict /\ [][NextRestrict]_vars

\* ------------------------------------------------------------------ claims

NonOwnerMembers == {u \in Users : memberships[u] # NoMember /\ memberships[u].role # "owner"}

Owners == {u \in Users : memberships[u] # NoMember /\ memberships[u].role = "owner"}

\* C1: for a non-owner member and a table of the tenant, the table gate is
\* decided by the member's TablePermission row alone: read passes iff the row
\* exists and has can_read or can_write, write passes iff the row exists and
\* has can_write, and a refusal is a 403; so a member without a row is
\* refused both.  The fields listing, which asks for read, answers accordingly.
C1_TableAccessByRow ==
    /\ \A u \in NonOwnerMembers, t \in OwnTables :
          LET row == tablePerms[t][u]
              read == EnsureTableAccess(u, t, "read")
              write == EnsureTableAccess(u, t, "write")
          IN /\ read.status = 200 <=> (row # NoRow /\ (row.can_read \/ row.can_write))
             /\ write.status = 200 <=> (row # NoRow /\ row.can_write)
             /\ read.status \in {200, 403}
             /\ write.status \in {200, 403}
             /\ row = NoRow => read.status = 403 /\ write.status = 403
    /\ (resp.op = "get_fields" /\ resp.user \in NonOwnerMembers /\ resp.target \in OwnTables)
          => LET row == tablePerms[resp.target][resp.user]
             IN IF row # NoRow /\ (row.can_read \/ row.can_write)
                THEN resp.status = 200
                ELSE resp.status = 403 /\ resp.data = {}

\* A member holding a read-only row has listed the fields of the table.
C1_Witness ==
    /\ resp.op = "get_fields"
    /\ resp.user = "u2"
    /\ resp.target = "t1"
    /\ resp.status = 200
    /\ tablePerms["t1"]["u2"] # NoRow
    /\ tablePerms["t1"]["u2"].can_read
    /\ ~tablePerms["t1"]["u2"].can_write

\* The views of the caller's tenant that exist.
OwnViews == {v \in views : TableTenant[ViewTable[v]] = CurrentTenant}

\* C2: for a user whose membership role is owner, the table read and write
\* checks, the view read and write checks and each of the six button checks
\* pass on every table and view of the tenant, whatever the owner's stored
\* row holds (no row, can_read and can_write false, button flags false); no
\* request of an owner on the data paths is answered 403.
C2_OwnerBypass ==
    /\ \A u \in Owners :
          /\ \A t \in OwnTables, access \in {"read", "write"} :
                EnsureTableAccess(u, t, access).status = 200
          /\ \A v \in OwnViews, access \in {"read", "write"} :
                EnsureViewAccess(u, v, access, NoTable).status = 200
          /\ \A t \in OwnTables, button_key \in ButtonKeys :
                EnsureTableButtonPermission(u, t, button_key).status = 200
    /\ (resp.user \in Owners
        /\ resp.op \in {"get_fields", "query_records", "create_record", "delete_record"})
          => resp.status # 403
    /\ (resp.user \in Owners /\ resp.op \in {"get_fields", "create_record"}
        /\ resp.target \in OwnTables)
          => resp.status = 200

\* An owner whose stored row on t1 has every flag off has created a record.
C2_Witness ==
    /\ resp.op = "create_record"
    /\ resp.user = "u1"
    /\ resp.target = "t1"
    /\ resp.status = 200
    /\ tablePerms["t1"]["u1"] = LowTablePermission
    /\ viewPerms["v1"]["u1"] = NewViewPermission(FALSE, FALSE)

\* C3: a bulk permission replace on a table or on a view never deletes or
\* downgrades an owner's row: every owner row that existed before a
\* successful call exists after it with can_read and can_write both true,
\* whether the owner was left out of the items or submitted with lower flags.
C3_OwnerRowKept ==
    [][/\ \A t \in OwnTables, x \in Owners :
             (/\ resp'.op = "update_table_permissions"
              /\ resp'.target = t
              /\ resp'.status = 200
              /\ tablePerms[t][x] # NoRow)
             => (/\ tablePerms'[t][x] # NoRow
                 /\ tablePerms'[t][x].can_read
                 /\ tablePerms'[t][x].can_write)
       /\ \A v \in views, x \in Owners :
             (/\ resp'.op = "update_view_permissions"
              /\ resp'.target = v
              /\ resp'.status = 200
              /\ viewPerms[v][x] # NoRow)
             => (/\ viewPerms'[v][x] # NoRow
                 /\ viewPerms'[v][x].can_read
                 /\ viewPerms'[v][x].can_write)]_vars

\* The payloads whose users are all members of the tenant.
MemberPayloads ==
    {items \in Payloads : \A i \in DOMAIN items : memberships[items[i].userId] # NoMember}

\* C4: a bulk permission replace is idempotent: from any stored rows of a
\* table or a view and any payload whose users are all members, a second
\* application of the same payload leaves the rows and their can_read and
\* can_write exactly as the first application left them.
C4_ReplaceIdempotent ==
    \A items \in MemberPayloads :
        /\ LET first == ReplaceTableRows(tablePerms["t1"], items)
               second == ReplaceTableRows(first.rows, items)
           IN ~first.conflict => (~second.conflict /\ second.rows = first.rows)
        /\ LET first == ReplaceViewRows(viewPerms["v1"], items)
               second == ReplaceViewRows(first.rows, items)
           IN ~first.conflict => (~second.conflict /\ second.rows = first.rows)

\* A replace has just rewritten the rows of t1, the stored rows differ from
\* the seeded ones, and some payload naming both members with lower flags
\* changes them again, so its second application is not vacuous.
C4_Witness ==
    /\ resp.op = "update_table_permissions"
    /\ resp.status = 200
    /\ tablePerms["t1"]["u2"] # NoRow
    /\ tablePerms["t1"]["u2"].can_write
    /\ \E items \in MemberPayloads :
          /\ Len(items) = 2
          /\ ~ReplaceTableRows(tablePerms["t1"], items).conflict
          /\ ReplaceTableRows(tablePerms["t1"], items).rows # tablePerms["t1"]

\* Whether the stored rows of member u grant read on table t / on view v.
TableRowReads(u, t) ==
    tablePerms[t][u] # NoRow /\ (tablePerms[t][u].can_read \/ tablePerms[t][u].can_write)

ViewRowReads(u, v) ==
    viewPerms[v][u] # NoRow /\ (viewPerms[v][u].can_read \/ viewPerms[v][u].can_write)

\* C8: a non-owner reads a table's records through a named view only if
\* both gates pass: the member's TablePermission row on the view's table
\* grants read and the member's ViewPermission row on the view exists and
\* grants read.  With a granting table row, a missing view row or one with
\* both flags off is a 403; once the view row grants, the same query passes.
C8_ViewQueryNeedsBothGates ==
    /\ \A u \in NonOwnerMembers, v \in OwnViews :
          LET g == QueryGate(u, ViewTable[v], v, "and")
          IN /\ g.status = 200 <=> (TableRowReads(u, ViewTable[v]) /\ ViewRowReads(u, v))
             /\ (TableRowReads(u, ViewTable[v]) /\ ~ViewRowReads(u, v)) => g.status = 403
    /\ (resp.op = "query_records" /\ resp.user \in NonOwnerMembers /\ resp.view # NoView)
          => /\ resp.status = 200
                  => (/\ resp.view \in OwnViews
                      /\ ViewTable[resp.view] = resp.target
                      /\ TableRowReads(resp.user, resp.target)
                      /\ ViewRowReads(resp.user, resp.view))
             /\ resp.status # 200 => resp.data = {}
             /\ (/\ resp.view \in OwnViews
                 /\ ViewTable[resp.view] = resp.target
                 /\ TableRowReads(resp.user, resp.target)
                 /\ ~ViewRowReads(resp.user, resp.view))
                  => resp.status = 403

\* The member's query through v1 is refused 403 while the table row grants
\* read and write and the view row exists with both flags off.
C8_Witness ==
    /\ resp.op = "query_records"
    /\ resp.user = "u2"
    /\ resp.target = "t1"
    /\ resp.view = "v1"
    /\ resp.status = 403
    /\ tablePerms["t1"]["u2"] # NoRow
    /\ tablePerms["t1"]["u2"].can_write
    /\ viewPerms["v1"]["u2"] = NewViewPermission(FALSE, FALSE)

\* C10 as stated: for every non-owner member, a records query on a table of
\* the tenant that names no view is rejected with status 400 and returns no
\* records.
C10_NoViewAlways400 ==
    (/\ resp.op = "query_records"
     /\ resp.user \in NonOwnerMembers
     /\ resp.target \in OwnTables
     /\ resp.view = NoView)
       => (resp.status = 400 /\ resp.data = {})

\* C10, amended: a records query that names no view never succeeds for a
\* non-owner member and returns no records; it is rejected with status 400
\* when the member's row grants read on the table, and with the table
\* gate's 403 when it does not.  An owner's query without a view passes.
C10_NoViewNeedsTableRead ==
    /\ (/\ resp.op = "query_records"
        /\ resp.user \in NonOwnerMembers
        /\ resp.target \in OwnTables
        /\ resp.view = NoView)
          => /\ resp.data = {}
             /\ resp.status = IF TableRowReads(resp.user, resp.target) THEN 400 ELSE 403
    /\ \A u \in NonOwnerMembers, t \in OwnTables, filter_logic \in FilterLogicInputs :
          QueryGate(u, t, NoView, filter_logic).status =
             IF TableRowReads(u, t) THEN 400 ELSE 403
    /\ \A u \in Owners, t \in OwnTables : QueryGate(u, t, NoView, "and").status = 200

\* A member whose row grants read on t1 has queried it without a view and
\* got 400.
C10_Witness ==
    /\ resp.op = "query_records"
    /\ resp.user = "u2"
    /\ resp.target = "t1"
    /\ resp.view = NoView
    /\ resp.status = 400
    /\ TableRowReads("u2", "t1")

\* The flag each gated request checks.
ButtonOf(op) ==
    CASE op = "create_record" -> "can_create_record"
      [] op = "delete_record" -> "can_delete_record"
      [] OTHER -> "can_import_records"

\* The table a gated request acts on.
TableOf(op, target) ==
    IF op = "delete_record"
    THEN (IF target \in RecordPool THEN RecordTable[target] ELSE GhostTable)
    ELSE target

\* C9, button gate: for a non-owner on record creation, record deletion
\* and the import, a member without a TablePermission row on the table is
\* denied whatever any flag says, and with a row the button gate passes iff
\* the flag of that action is true; a request that passed the table write
\* gate is answered 403 iff the flag is off.
C9_ButtonGate ==
    /\ \A u \in NonOwnerMembers, t \in OwnTables, button_key \in GatedButtonKeys :
          LET g == EnsureTableButtonPermission(u, t, button_key)
          IN /\ tablePerms[t][u] = NoRow => g.status = 403
             /\ tablePerms[t][u] # NoRow => (g.status = 200 <=> tablePerms[t][u][button_key])
    /\ (/\ resp.op \in {"create_record", "delete_record", "import_view_bundle"}
        /\ resp.user \in NonOwnerMembers
        /\ TableOf(resp.op, resp.target) \in OwnTables
        /\ resp.status # 404)
          => LET row == tablePerms[TableOf(resp.op, resp.target)][resp.user]
             IN /\ row = NoRow => resp.status = 403
                /\ (row # NoRow /\ row.can_write)
                      => (resp.status = 403 <=> ~row[ButtonOf(resp.op)])

\* C9, new rows: a TablePermission row created by a request that carries no
\* button values has all six button flags true.
C9_NewRowButtons ==
    \A t \in OwnTables, x \in Users :
        (/\ tablePerms[t][x] = NoRow
         /\ tablePerms'[t][x] # NoRow
         /\ resp'.op # "update_table_button_permissions")
          => \A button_key \in ButtonKeys : tablePerms'[t][x][button_key]

\* C9: the button gate on create-record, delete-record and import, and the
\* default of the six flags in a row created without button values.
C9_ButtonLayer == []C9_ButtonGate /\ [][C9_NewRowButtons]_vars

\* The member's import is refused 403 while the member's row on t1 grants
\* write and has can_import_records off.
C9_Witness ==
    /\ resp.op = "import_view_bundle"
    /\ resp.user = "u2"
    /\ resp.target = "t1"
    /\ resp.status = 403
    /\ tablePerms["t1"]["u2"] # NoRow
    /\ tablePerms["t1"]["u2"].can_write
    /\ ~tablePerms["t1"]["u2"].can_import_records
    /\ tablePerms["t1"]["u2"].can_create_record

\* C5, one remove_member request aimed at an owner's membership: if that
\* is the tenant's only owner membership the request is rejected and the
\* membership stays; if the caller is another owner and the tenant has at
\* least two owners the membership is removed; if the caller is not an
\* owner (a managing role included) the answer is 403 and nothing changes.
C5_RemoveOwnerStep ==
    \A x \in Owners :
        (resp'.op = "remove_member" /\ resp'.target = x)
          => /\ Cardinality(Owners) = 1
                  => (resp'.status \in {400, 403} /\ memberships' = memberships)
             /\ (resp'.user \in Owners /\ resp'.user # x /\ Cardinality(Owners) >= 2)
                  => (/\ resp'.status = 200
                      /\ memberships' = [memberships EXCEPT ![x] = NoMember])
             /\ resp'.user \notin Owners => (resp'.status = 403 /\ UNCHANGED db)

\* C5: remove_member obeys the owner rules, at every step.
C5_RemoveMemberOwnerRules == [][C5_RemoveOwnerStep]_vars

\* The owner u1 has been removed by the second owner u2, who is now the
\* tenant's only owner.
C5_Witness ==
    /\ resp.op = "remove_member"
    /\ resp.user = "u2"
    /\ resp.target = "u1"
    /\ resp.status = 200
    /\ memberships["u1"] = NoMember
    /\ Owners = {"u2"}

\* C6: every TablePermission and ViewPermission row's user holds a
\* membership in the row's tenant, in every state the API operations reach.
C6_RowUsersAreMembers ==
    /\ \A t \in OwnTables, x \in Users :
          tablePerms[t][x] # NoRow => memberships[x] # NoMember
    /\ \A v \in OwnViews, x \in Users :
          viewPerms[v][x] # NoRow => memberships[x] # NoMember

\* The ids of the resources that exist only in another tenant.
ForeignIds ==
    {t \in Tables : TableTenant[t] # CurrentTenant}
    \cup {v \in views : TableTenant[ViewTable[v]] # CurrentTenant}
    \cup {r \in records : TableTenant[RecordTable[r]] # CurrentTenant}
    \cup {f \in fields : TableTenant[FieldTable[f]] # CurrentTenant}

ResourceTypeOf(id) ==
    CASE id \in Tables -> "table"
      [] id \in ViewPool -> "view"
      [] id \in RecordPool -> "record"
      [] OTHER -> "field"

\* The foreign id the last request named: its path id, else its viewId.
ProbedId ==
    IF resp.target \in ForeignIds THEN resp.target
    ELSE IF resp.view \in ForeignIds THEN resp.view
    ELSE "none"

CrossTenantRows == {i \in DOMAIN resp.audit : resp.audit[i].action = "cross_tenant_access"}

\* C7, the answer to a probe: a member of the tenant who names a table,
\* view, record or field that exists only in another tenant is answered
\* 403 or 404 with no data, and the request writes exactly one audit row
\* with action cross_tenant_access, the resource's type and the named id.
C7_ProbeAnswer ==
    (resp.user \in Owners \cup NonOwnerMembers /\ ProbedId # "none")
       => /\ resp.status \in {403, 404}
          /\ resp.data = {}
          /\ Cardinality(CrossTenantRows) = 1
          /\ \A i \in CrossTenantRows :
                /\ resp.audit[i].resource_type = ResourceTypeOf(ProbedId)
                /\ resp.audit[i].resource_id = ProbedId

\* C7, the effect of a probe: nothing stored changes.
C7_ProbeChangesNothing ==
    (resp'.target \in ForeignIds \/ resp'.view \in ForeignIds) => UNCHANGED db

\* C7: a cross-tenant probe is rejected, changes nothing, and is audited
\* by exactly one cross_tenant_access row.
C7_CrossTenantProbe == []C7_ProbeAnswer /\ [][C7_ProbeChangesNothing]_vars

\* The served page of the last request, when it was a paged query.
PageServed == resp.op = "query_records_page" /\ resp.status = 200

\* Is the record's value for the field null or absent?
NullAt(record, field_id) == RecordValueByField(record, field_id) = Null

\* C11: sort with nulls.  A query sorted by one key, in either direction,
\* lists every record whose value for the sort field is null or absent
\* after every record that has one, and lists the null records in the order
\* the input had them.
C11_NullsLast ==
    (PageServed /\ Len(resp.data.query.sorts) = 1 /\ ValidFieldId(resp.data.query.sorts[1])
       /\ resp.data.query.filters = <<>>) =>
        LET items == resp.data.page.items
            field_id == resp.data.query.sorts[1].fieldId
            input == TableRecords(resp.target)
            nulls == {r \in Range(input) : NullAt(r, field_id)}
        IN /\ Range(items) = Range(input)
           /\ Len(items) = Len(input)
           /\ \A i, j \in 1 .. Len(items) :
                 (i < j /\ NullAt(items[i], field_id)) => NullAt(items[j], field_id)
           /\ SelectWhere(items, nulls) = SelectWhere(input, nulls)

\* A descending sort by score moved the null first record behind the other
\* two, of which one is null too.
C11_Witness ==
    /\ PageServed
    /\ resp.data.query.sorts = <<[fieldId |-> FieldIdValue("fScore"), direction |-> "desc"]>>
    /\ recordValues["q1"]["fScore"] = Null
    /\ recordValues["q2"]["fScore"] = Num(10)
    /\ recordValues["q3"]["fScore"] = Null
    /\ [i \in 1 .. 3 |-> resp.data.page.items[i].id] = <<"q2", "q1", "q3">>

\* The sort key of a record for a field of the queried table.
SortKeyOf(record, field_id) ==
    NormalizeSortValue(FieldsGet(FieldsById(resp.target), field_id),
                       RecordValueByField(record, field_id))

\* The values a list of records shows for two fields, in list order.
ValuePairs(recs, a, b) ==
    [i \in 1 .. Len(recs) |-> <<RecordValueByField(recs[i], a), RecordValueByField(recs[i], b)>>]

\* C12: multi-key sort precedence.  A query sorted by [A asc, B desc] lists
\* the records by A ascending (null A last), lists two records of equal
\* non-null A by B descending, and shows the same values in the same order
\* whatever order the store hands the records over in.
C12_FirstKeyDominates ==
    (PageServed /\ Len(resp.data.query.sorts) = 2 /\ resp.data.query.filters = <<>>
       /\ \A k \in 1 .. 2 : ValidFieldId(resp.data.query.sorts[k])
       /\ resp.data.query.sorts[1].fieldId # resp.data.query.sorts[2].fieldId
       /\ LowerWord(ItemGet(resp.data.query.sorts[1], "direction", "asc")) = "asc"
       /\ LowerWord(ItemGet(resp.data.query.sorts[2], "direction", "asc")) = "desc") =>
        LET items == resp.data.page.items
            a == resp.data.query.sorts[1].fieldId
            b == resp.data.query.sorts[2].fieldId
            input == TableRecords(resp.target)
        IN /\ \A i, j \in 1 .. Len(items) :
                 i < j =>
                    /\ NullAt(items[i], a) => NullAt(items[j], a)
                    /\ (~NullAt(items[i], a) /\ ~NullAt(items[j], a)) =>
                          ~KeyLess(SortKeyOf(items[j], a), SortKeyOf(items[i], a))
                    /\ (~NullAt(items[i], a)
                          /\ RecordValueByField(items[i], a) = RecordValueByField(items[j], a)
                          /\ ~NullAt(items[i], b) /\ ~NullAt(items[j], b)) =>
                          ~KeyLess(SortKeyOf(items[i], b), SortKeyOf(items[j], b))
           /\ \A p \in Permutations(1 .. Len(input)) :
                 ValuePairs(ApplyFiltersAndSorts([i \in 1 .. Len(input) |-> input[p[i]]],
                                                 FieldsById(resp.target), <<>>,
                                                 resp.data.query.sorts, "and"), a, b)
                    = ValuePairs(items, a, b)

\* Sorted by [score asc, name desc]: the two records of score 10 changed
\* places, "B" before "a", ahead of the record of score 90.
C12_Witness ==
    /\ PageServed
    /\ resp.data.query.sorts = <<[fieldId |-> FieldIdValue("fScore"), direction |-> "asc"],
                                 [fieldId |-> FieldIdValue("fName"), direction |-> "desc"]>>
    /\ recordValues["q1"]["fScore"] = Num(10) /\ recordValues["q1"]["fName"] = Str(<<"a">>)
    /\ recordValues["q2"]["fScore"] = Num(10) /\ recordValues["q2"]["fName"] = Str(<<"B">>)
    /\ recordValues["q3"]["fScore"] = Num(90)
    /\ [i \in 1 .. 3 |-> resp.data.page.items[i].id] = <<"q2", "q1", "q3">>

\* strip() leaves nothing of the string: it is empty or all spaces.
BlankString(cs) == \A i \in 1 .. Len(cs) : cs[i] = " "

\* The filtered list the claim describes for the last query, when the
\* filters of the set usable are the ones that count.
FilteredAsClaimed(usable) ==
    LET query == resp.data.query
        input == TableRecords(resp.target)
        fields_by_id == FieldsById(resp.target)
        counted == {i \in 1 .. Len(query.filters) : query.filters[i] \in usable}
        Passes(r, i) == RecordMatches(r, fields_by_id, query.filters[i])
    IN IF counted = {} THEN input
       ELSE IF LowerWord(query.filterLogic) = "or"
            THEN SelectWhere(input, {r \in Range(input) : \E i \in counted : Passes(r, i)})
            ELSE SelectWhere(input, {r \in Range(input) : \A i \in counted : Passes(r, i)})

\* C13 as stated: the filters that count are those whose fieldId is a string
\* that is not blank; a filter with a missing or blank fieldId is ignored.
C13_BlankFieldIdIgnored ==
    (PageServed /\ resp.data.query.sorts = <<>>) =>
        resp.data.page.items =
            FilteredAsClaimed({item \in FilterItems :
                                  /\ ItemGet(item, "fieldId", Null).t = "str"
                                  /\ ~BlankString(ItemGet(item, "fieldId", Null).s)})

\* C13, amended: filter combination.  The filters that count are those whose
\* fieldId is a non-empty string (one made of spaces counts, and names no
\* field).  With 'and' the result is the input-order subsequence of the
\* records that match every such filter, with 'or' of the records that match
\* at least one, each record once; when no filter counts all records are
\* returned.
C13_FilterCombination ==
    (PageServed /\ resp.data.query.sorts = <<>>) =>
        /\ resp.data.page.items = FilteredAsClaimed({item \in FilterItems : ValidFieldId(item)})
        /\ \A i, j \in 1 .. Len(resp.data.page.items) :
              i # j => resp.data.page.items[i] # resp.data.page.items[j]

\* Under 'or', the filters score >= 50 and name contains "b" both match the
\* second record and one each the first and the third: all three are listed
\* once, in input order.
C13_Witness ==
    /\ PageServed
    /\ resp.data.query.sorts = <<>>
    /\ LowerWord(resp.data.query.filterLogic) = "or"
    /\ resp.data.query.filters =
          <<[fieldId |-> FieldIdValue("fScore"), op |-> "gte", value |-> Num(50)],
            [fieldId |-> FieldIdValue("fName"), value |-> Str(<<"b">>)]>>
    /\ recordValues["q1"]["fScore"] = Num(90) /\ recordValues["q1"]["fName"] = Null
    /\ recordValues["q2"]["fScore"] = Num(90) /\ recordValues["q2"]["fName"] = Str(<<"a", "B">>)
    /\ recordValues["q3"]["fScore"] = Num(10) /\ recordValues["q3"]["fName"] = Str(<<"a", "B">>)
    /\ [i \in 1 .. Len(resp.data.page.items) |-> resp.data.page.items[i].id] = <<"q1", "q2", "q3">>

\* The scoring scenario: the filter {score gte 50} with the sort
\* [score desc] was served over records holding the scores 10, 90 and null.
ScoreScenario ==
    /\ PageServed
    /\ resp.data.query.filters =
          <<[fieldId |-> FieldIdValue("fScore"), op |-> "gte", value |-> Num(50)]>>
    /\ resp.data.query.sorts = ScoreDescending
    /\ \E p \in Permutations(ScoringRecords) :
          /\ recordValues[p["q1"]]["fScore"] = Num(10)
          /\ recordValues[p["q2"]]["fScore"] = Num(90)
          /\ recordValues[p["q3"]]["fScore"] = Null

\* The scores of the served page, in page order.
PageScores ==
    [i \in 1 .. Len(resp.data.page.items) |->
        RecordValueByField(resp.data.page.items[i], FieldIdValue("fScore"))]

\* C14 as stated: the scenario yields the order [90, 10].
C14_ScenarioYields90Then10 == ScoreScenario => PageScores = <<Num(90), Num(10)>>

\* C14, amended: the scenario yields [90].  The filter excludes the null
\* record and the record of score 10 alike (10 >= 50 is false); both are
\* gone before the sort runs.
C14_ScenarioYields90 ==
    ScoreScenario =>
        /\ PageScores = <<Num(90)>>
        /\ LET unsorted == ApplyFiltersAndSorts(TableRecords(resp.target), FieldsById(resp.target),
                                                resp.data.query.filters, <<>>, "and")
           IN [i \in 1 .. Len(unsorted) |-> RecordValueByField(unsorted[i], FieldIdValue("fScore"))]
                 = <<Num(90)>>

\* The scenario with the scores 10, 90 and null stored in that order: the
\* page is the second record alone.
C14_Witness ==
    /\ ScoreScenario
    /\ recordValues["q1"]["fScore"] = Num(10)
    /\ recordValues["q2"]["fScore"] = Num(90)
    /\ recordValues["q3"]["fScore"] = Null
    /\ Len(resp.data.page.items) = 1
    /\ resp.data.page.items[1].id = "q2"
    /\ resp.data.page.totalCount = 1

\* The filtered and sorted list the last query paged.
QueriedList ==
    ApplyFiltersAndSorts(TableRecords(resp.target), FieldsById(resp.target),
                         resp.data.query.filters, resp.data.query.sorts,
                         LowerWord(resp.data.query.filterLogic))

\* The start offset of the last query: its cursor as an integer, 0 without.
StartOffset == IF resp.data.query.cursor = <<>> THEN 0 ELSE ParseInt(resp.data.query.cursor).n

\* The elements of list at the offsets start .. start + size - 1, counted
\* from 0 at the head of the list.
OffsetSlice(list, start, size) ==
    LET lo == IF start < 0 THEN 0 ELSE start
        hi == IF start + size > Len(list) THEN Len(list) ELSE start + size
    IN IF hi <= lo THEN <<>> ELSE SubSeq(list, lo + 1, hi)

\* The statement of C15 about a served page.
PageAsClaimed ==
    LET page == resp.data.page
        stop == StartOffset + resp.data.query.pageSize
    IN /\ page.items = OffsetSlice(QueriedList, StartOffset, resp.data.query.pageSize)
       /\ page.totalCount = Len(QueriedList)
       /\ (page.nextCursor # Null) <=> (\E k \in 0 .. (Len(QueriedList) - 1) : k >= stop)
       /\ (page.nextCursor # Null) => page.nextCursor = Str(StrOfInt(stop))

\* C15 as stated: pagination.  For every cursor the query accepts and every
\* pageSize in [1, 500] the page is the slice of the filtered and sorted list
\* from the start offset to start + pageSize, totalCount is the size of that
\* list, and nextCursor is the string of start + pageSize, emitted iff
\* records remain beyond the page.
C15_PageIsOffsetSlice == PageServed => PageAsClaimed

\* C15 for the cursors that name an offset into the list: a start of 0 or
\* more.
C15_PageFromStart == (PageServed /\ StartOffset >= 0) => PageAsClaimed

\* Cursor "1" with pageSize 1 over three records: the second record, the
\* next cursor "2", a total of 3.
C15_Witness ==
    /\ PageServed
    /\ resp.data.query.cursor = <<"1">>
    /\ resp.data.query.pageSize = 1
    /\ resp.data.query.filters = <<>>
    /\ resp.data.query.sorts = <<>>
    /\ [i \in 1 .. Len(resp.data.page.items) |-> resp.data.page.items[i].id] = <<"q2">>
    /\ resp.data.page.nextCursor = Str(<<"2">>)
    /\ resp.data.page.totalCount = 3

\* The last request was served the avg of a metric widget over a field.
AvgServed ==
    /\ resp.op = "get_dashboard_widget_data"
    /\ resp.status = 200
    /\ resp.data.widget.table_id # NoTable
    /\ resp.data.widget.field_ids # <<>>
    /\ \/ resp.data.override = "avg"
       \/ resp.data.override = "" /\ resp.data.widget.aggregation = "avg"

\* The numeric values of the widget's first field over the table's records.
AvgNumbers == NumbersOf(FieldValues(resp.data.widget.table_id, resp.data.widget.field_ids[1]))

\* C16 as stated: avg over no numeric value is 0 in a normal payload;
\* otherwise it is the sum of the numeric values divided by their count.
C16_AvgIsExactQuotient ==
    AvgServed =>
        /\ "error" \notin DOMAIN resp.data.payload
        /\ IF AvgNumbers = <<>> THEN resp.data.payload.value = Hundredths(0)
           ELSE resp.data.payload.value.hundredths * Len(AvgNumbers) = 100 * SumOf(AvgNumbers)

\* C16, amended: avg over no numeric value is 0 in a normal payload;
\* otherwise it is the sum of the numeric values divided by their count,
\* rounded to two decimals: within half a hundredth of the quotient.
C16_AvgIsRoundedQuotient ==
    AvgServed =>
        /\ "error" \notin DOMAIN resp.data.payload
        /\ IF AvgNumbers = <<>> THEN resp.data.payload.value = Hundredths(0)
           ELSE LET shown == resp.data.payload.value.hundredths * Len(AvgNumbers)
                    exact == 100 * SumOf(AvgNumbers)
                IN /\ 2 * (shown - exact) <= Len(AvgNumbers)
                   /\ 2 * (exact - shown) <= Len(AvgNumbers)

\* The avg of the names "a", " " and "a", none of them a number, is 0 in a
\* normal payload.
C16_Witness ==
    /\ AvgServed
    /\ resp.data.widget.field_ids[1] = FieldIdValue("fName")
    /\ records = {"r1", "rX"} \cup ScoringRecords
    /\ recordValues["q1"]["fName"] = Str(<<"a">>)
    /\ recordValues["q2"]["fName"] = Str(<<" ">>)
    /\ recordValues["q3"]["fName"] = Str(<<"a">>)
    /\ "error" \notin DOMAIN resp.data.payload
    /\ resp.data.payload.value = Hundredths(0)

\* The rows of a kind (views, fields or records) that belong to table t.
RowsOf(ids, table_of, t) == {x \in ids : table_of[x] = t}

\* C17: import round-trip.  A successful import of a bundle with N fields
\* and M records has N >= 1 distinct non-blank names, adds exactly N fields,
\* one view and M records to the table and removes none, and its response
\* carries the ids of the N new fields and recordCount = M.
C17_ImportRoundTrip ==
    [][(resp'.op = "import_view_bundle" /\ resp'.status = 200) =>
         LET t == resp'.target
             bundle == resp'.data.payload
         IN /\ Len(bundle.fields) >= 1
            /\ "" \notin Range(bundle.fields)
            /\ Cardinality(Range(bundle.fields)) = Len(bundle.fields)
            /\ fields \subseteq fields' /\ views \subseteq views' /\ records \subseteq records'
            /\ Cardinality(RowsOf(fields' \ fields, FieldTable, t)) = Len(bundle.fields)
            /\ fields' \ fields = RowsOf(fields' \ fields, FieldTable, t)
            /\ views' \ views = {resp'.view}
            /\ ViewTable[resp'.view] = t
            /\ Cardinality(RowsOf(records' \ records, RecordTable, t)) = bundle.records
            /\ records' \ records = RowsOf(records' \ records, RecordTable, t)
            /\ resp'.data.fieldIds = fields' \ fields
            /\ resp'.data.recordCount = bundle.records]_vars

\* The owner imported two fields and one record into t1: both fields, the
\* record and the view exist, and the response names the fields and counts
\* the record.
C17_Witness ==
    /\ resp.op = "import_view_bundle"
    /\ resp.status = 200
    /\ resp.target = "t1"
    /\ Len(resp.data.payload.fields) = 2
    /\ resp.data.payload.records = 1
    /\ resp.data.fieldIds = {"f2", "f3"}
    /\ resp.data.recordCount = 1
    /\ {"f2", "f3"} \subseteq fields
    /\ resp.view \in views

\* The last entry of the patch of the request answered in the next state.
LastEntry == resp'.data.patch[Len(resp'.data.patch)]

\* The users holding a row on table t that grants read or write.
ReferenceMembers(t) ==
    {x \in Users : tablePerms[t][x] # NoRow
                   /\ (tablePerms[t][x].can_read \/ tablePerms[t][x].can_write)}

\* C18, a write: a patch that got past the record and table gates and ends
\* in a non-null value for a member field is stored iff the value is the id
\* of a user holding a read or write row on the table; otherwise it is
\* answered 400 and no value of the patch is stored.
C18_MemberWriteStep ==
    (/\ resp'.op = "patch_record"
     /\ resp'.status \notin {403, 404}
     /\ FieldType[LastEntry.field_id] = "member"
     /\ LastEntry.value # Null)
       => LET r == resp'.target
              accepted == \E x \in ReferenceMembers(RecordTable[r]) :
                             UserIdValue(x) = LastEntry.value
          IN /\ accepted => /\ resp'.status = 200
                            /\ recordValues'[r][LastEntry.field_id] = LastEntry.value
             /\ ~accepted => /\ resp'.status = 400
                             /\ recordValues' = recordValues

\* C18, no supplied set: validate_value refuses every non-null member value
\* with 400 when the caller passes no reference member set.
C18_NoSetRefused ==
    \A value \in MemberValueInputs \ {Null} :
        ValidateValue([id |-> "fMember", type |-> FieldType["fMember"]], value, NoMemberIds).status = 400

\* C18: a non-null value for a member field is accepted iff it is the id of
\* a user of the table's reference member set, and refused with 400, storing
\* nothing, otherwise or when no set is supplied.
C18_MemberReference == []C18_NoSetRefused /\ [][C18_MemberWriteStep]_vars

\* The owner's write of the member u2 is refused with 400: a bulk replace
\* removed the row u2 held on the table.
C18_Witness ==
    /\ resp.op = "patch_record"
    /\ resp.user = "u1"
    /\ resp.target = "q1"
    /\ resp.data.patch = <<[field_id |-> "fMember", value |-> UserIdValue("u2")]>>
    /\ resp.status = 400
    /\ resp.detail = "member_out_of_scope"
    /\ memberships["u2"] # NoMember
    /\ tablePerms["t2"]["u2"] = NoRow
    /\ recordValues["q1"]["fMember"] = Null

\* The views of table t.
ViewsOf(t) == {v \in views : ViewTable[v] = t}

\* C19, the refusal: a delete_view that got past the access gates on a view
\* that is the only one of its table is answered 400, and the view and its
\* rows remain.
C19_LastViewRefused ==
    (/\ resp'.op = "delete_view"
     /\ resp'.target \in OwnViews
     /\ resp'.status \notin {403, 404}
     /\ ViewsOf(ViewTable[resp'.target]) = {resp'.target})
       => /\ resp'.status = 400
          /\ views' = views
          /\ viewPerms' = viewPerms

\* C19, the invariant: no step takes the last view of a table away.
C19_ViewsRemain ==
    \A t \in Tables : ViewsOf(t) # {} => {v \in views' : ViewTable[v] = t} # {}

\* C19: deleting the last view of a table is refused with 400 and leaves the
\* view, so over create_view, import and delete_view a table with a view
\* never reaches zero views.
C19_LastViewKept == [][C19_LastViewRefused /\ C19_ViewsRemain]_vars

\* The owner deleted v1 once t1 had a second view, and is refused the
\* deletion of v2, now the only view of t1.
C19_Witness ==
    /\ resp.op = "delete_view"
    /\ resp.user = "u1"
    /\ resp.target = "v2"
    /\ resp.status = 400
    /\ resp.detail = "last_view"
    /\ ViewsOf("t1") = {"v2"}

\* Does the row exist with the read and write values of the role defaults?
HoldsRoleDefaults(row, role) ==
    /\ row # NoRow
    /\ row.can_read = (role.default_table_can_read \/ role.default_table_can_write)
    /\ row.can_write = role.default_table_can_write

\* C20: role-default propagation.  Right after a create_member or an
\* update_member_role that assigned role R to a user, the user has a row on
\* every table and on every view of the tenant, with can_read = R's default
\* read or default write and can_write = R's default write, whatever the
\* rows held before.
C20_RoleDefaultsPropagate ==
    [][(resp'.op \in {"create_member", "update_member_role"} /\ resp'.status = 200) =>
         LET x == resp'.target
             role == RoleMapGet(roles', memberships'[x].role_key)
         IN /\ role # NoRole
            /\ \A t \in OwnTables : HoldsRoleDefaults(tablePerms'[t][x], role)
            /\ \A v \in views' :
                  TableTenant[ViewTable[v]] = CurrentTenant => HoldsRoleDefaults(viewPerms'[v][x], role)]_vars

\* The owner moved u2 to the role admin: u2 now reads and writes every table
\* and view of the tenant.
C20_Witness ==
    /\ resp.op = "update_member_role"
    /\ resp.status = 200
    /\ resp.target = "u2"
    /\ memberships["u2"].role_key = "admin"
    /\ \A t \in OwnTables : tablePerms[t]["u2"] # NoRow /\ tablePerms[t]["u2"].can_write
    /\ \A v \in OwnViews : viewPerms[v]["u2"] # NoRow /\ viewPerms[v]["u2"].can_write

\* ---- C21

\* A non-owner membership's role_key names a TenantRoleModel row of the
\* tenant.
MembersHoldRoles ==
    \A x \in Users :
        (memberships[x] # NoMember /\ memberships[x].role # "owner")
            => RoleMapGet(roles, memberships[x].role_key) # NoRole

\* A delete_tenant_role request naming a key some membership of the tenant
\* holds is refused and changes no role.
C21_InUseRefused ==
    [][(/\ resp'.op = "delete_tenant_role"
        /\ \E x \in Users : memberships[x] # NoMember /\ memberships[x].role_key = resp'.target)
       => (resp'.status # 200 /\ roles' = roles)]_vars

\* C21: deleting a role is rejected while a membership of the tenant
\* references its key, and the role stays; over every series of
\* create_member, update_member_role, create_tenant_role and
\* delete_tenant_role every non-owner membership's role_key names a role
\* that exists in the tenant.
C21_RolesInUseKept == []MembersHoldRoles /\ C21_InUseRefused

\* The owner's deletion of the custom role "qa" is refused because a member
\* holds it.
C21_Witness ==
    /\ resp.op = "delete_tenant_role"
    /\ resp.target = "qa"
    /\ resp.user = "u1"
    /\ resp.detail = "role_in_use"
    /\ roles["qa"] # NoRole
    /\ \E x \in Users : memberships[x] # NoMember /\ memberships[x].role_key = "qa"

\* ---- C22

\* A step in which an in-flight update_table_permissions ends.
ReplaceCommitted ==
    /\ resp'.op = "update_table_permissions"
    /\ \E i \in RequestSlots :
          inflight[i].op = "update_table_permissions" /\ inflight'[i] = NoInflight

\* Whether a row is held, and its access flags.
RowAccess(row) ==
    IF row = NoRow THEN [held |-> FALSE, can_read |-> FALSE, can_write |-> FALSE]
    ELSE [held |-> TRUE, can_read |-> row.can_read, can_write |-> row.can_write]

\* The rows a payload asks for: one per item, none for anyone else.
TargetAccess(items, x) ==
    IF \E k \in DOMAIN items : items[k].userId = x
    THEN LET k == CHOOSE n \in DOMAIN items : items[n].userId = x
         IN [held |-> TRUE, can_read |-> items[k].canRead \/ items[k].canWrite,
             can_write |-> items[k].canWrite]
    ELSE [held |-> FALSE, can_read |-> FALSE, can_write |-> FALSE]

\* The non-owner rows of t1 after the step are the target of the request
\* that ended in it.
TargetInstalled ==
    \A x \in NonOwnerMembers :
        RowAccess(tablePerms'["t1"][x]) = TargetAccess(resp'.data.items, x)

\* C22: of two update_table_permissions requests running concurrently on
\* one table both complete, and the non-owner rows of the table are the
\* target of the request that committed last.
C22_LastCommitWins ==
    [][ReplaceCommitted => (resp'.status = 200 /\ TargetInstalled)]_vars

\* A replace that commits onto the rows it read installs its target.
C22_UndisturbedCommitWins ==
    [][(/\ ReplaceCommitted
        /\ \E i \in RequestSlots :
              /\ inflight[i].op = "update_table_permissions"
              /\ inflight'[i] = NoInflight
              /\ inflight[i].existing_map = tablePerms["t1"]
              /\ inflight[i].gone = {})
       => (resp'.status = 200 /\ TargetInstalled)]_vars

\* The later of two replaces has committed its target, a row for u3 alone,
\* and the row the earlier one inserted for u2 is still there.
C22_Witness ==
    /\ resp.op = "update_table_permissions"
    /\ resp.status = 200
    /\ resp.data.items = <<[userId |-> "u3", canRead |-> TRUE, canWrite |-> FALSE]>>
    /\ tablePerms["t1"]["u3"] # NoRow
    /\ tablePerms["t1"]["u2"] # NoRow

\* ---- C23

\* The single audit row a denial of the gate that answered must have
\* written: the action of the gate, and the access or button it required.
DenialAudited ==
    /\ Len(resp.audit) = 1
    /\ resp.audit[1].result = "denied"
    /\ resp.audit[1].user_id = resp.user
    /\ CASE resp.op = "ensure_table_button_permission" ->
              /\ resp.audit[1].action = "table_button_permission_denied"
              /\ resp.audit[1].resource_id = resp.target
              /\ resp.audit[1].detail = resp.data.button_key
         [] resp.detail = "no_view_access" ->
              /\ resp.audit[1].action = "view_permission_denied"
              /\ resp.audit[1].resource_id = resp.view
              /\ resp.audit[1].detail \in
                    {RequiredDetail(resp.data.access),
                     IF resp.data.access = "write" THEN "required=write;missing_row=true"
                     ELSE "required=read;missing_row=true"}
         [] OTHER ->
              /\ resp.audit[1].action = "table_permission_denied"
              /\ resp.audit[1].resource_id = resp.target
              /\ resp.audit[1].detail = RequiredDetail(resp.data.access)

\* A 403 of one of the three gates to a caller who is not the owner.
GateDenied ==
    /\ resp.op \in {"ensure_table_access", "ensure_view_access",
                    "ensure_table_button_permission"}
    /\ resp.status = 403
    /\ ~IsOwner(resp.user)

\* C23: every denial of a non-owner by the table, view or button gate on
\* an existing table or view writes its audit row with the required access
\* or the button key, the button denial for a missing base row included.
C23_EveryDenialAudited == GateDenied => DenialAudited

\* Every denial except the button gate's for a missing base row writes its
\* audit row.
C23_RowDenialsAudited ==
    (GateDenied /\ resp.detail # "missing_button_config") => DenialAudited

\* The button gate refuses the member u2, who holds no row on t1, and
\* writes no audit row.
C23_Witness ==
    /\ resp.op = "ensure_table_button_permission"
    /\ resp.user = "u2"
    /\ resp.target = "t1"
    /\ tablePerms["t1"]["u2"] = NoRow
    /\ resp.status = 403
    /\ resp.audit = <<>>

\* ---- C24

\* C24: a create_record, patch_record or import that fails stores nothing:
\* no record, no value of an earlier field of the same request, no view,
\* view-permission row or field; the store is what it was.
C24_FailedWritesApplyNothing ==
    [][(/\ resp'.op \in {"create_record", "patch_record", "import_view_bundle"}
        /\ resp'.status # 200)
       => UNCHANGED db]_vars

\* A patch whose first entry is a valid value of f1 and whose second entry
\* names an unknown field has failed, and f1 holds no value.
C24_Witness ==
    /\ resp.op = "patch_record"
    /\ resp.target = "r1"
    /\ resp.status = 404
    /\ Len(resp.data.patch) = 2
    /\ resp.data.patch[1] = [field_id |-> "f1", value |-> Str(<<"a">>)]
    /\ recordValues["r1"]["f1"] = Null

\* ---- C25

\* Status codes and details of the replies to a request that names a
\* resource the caller's tenant does not hold.
ProbeStatuses == {403, 404}

ProbeDetails ==
    {"no_tenant_access", "no_tenant_permission", "no_manage_table_permission",
     "no_table_access", "table_not_found", "view_not_found", "record_not_found", "field_not_found"}

\* Handler A answers the ids x and y alike: with a status and a detail of
\* the sets above, and the same ones.
SameAnswer(A(_), x, y) ==
    /\ ENABLED (A(x) /\ resp'.status \in ProbeStatuses /\ resp'.detail \in ProbeDetails
                     /\ resp'.data = {})
    /\ ENABLED (A(y) /\ resp'.status \in ProbeStatuses /\ resp'.detail \in ProbeDetails
                     /\ resp'.data = {})
    /\ \A st \in ProbeStatuses :
          ENABLED (A(x) /\ resp'.status = st) <=> ENABLED (A(y) /\ resp'.status = st)
    /\ \A d \in ProbeDetails :
          ENABLED (A(x) /\ resp'.detail = d) <=> ENABLED (A(y) /\ resp'.detail = d)

\* C25: for the same caller and the same operation, the status and detail
\* of the response to a table, view, record or field id that exists only in
\* another tenant are those of the response to an id that exists nowhere.
C25_ForeignAnsweredAsMissing ==
    \A u \in Users :
        /\ SameAnswer(LAMBDA t : GetFields(u, t), "tX", GhostTable)
        /\ SameAnswer(LAMBDA t : QueryRecords(u, t, NoView, "and"), "tX", GhostTable)
        /\ SameAnswer(LAMBDA t : UpdateTablePermissions(u, t, <<>>), "tX", GhostTable)
        /\ SameAnswer(LAMBDA v : QueryRecords(u, "t1", v, "and"), "vX", GhostView)
        /\ SameAnswer(LAMBDA v : UpdateViewPermissions(u, v, <<>>), "vX", GhostView)
        /\ SameAnswer(LAMBDA v : DeleteView(u, v), "vX", GhostView)
        /\ SameAnswer(LAMBDA r : DeleteRecord(u, r), "rX", GhostRecord)
        /\ SameAnswer(LAMBDA f : DeleteField(u, f), "fX", GhostField)

\* The member u2 has been answered 404 for the other tenant's record, with
\* the cross_tenant_access row that an unknown id does not get.
C25_Witness ==
    /\ resp.op = "delete_record"
    /\ resp.user = "u2"
    /\ resp.target = "rX"
    /\ resp.status = 404
    /\ Len(resp.audit) = 1
    /\ resp.audit[1].action = "cross_tenant_access"

\* ---- C26

\* C26: under every interleaving of remove_member requests, two owners
\* removing each other included, a tenant that started with an owner keeps
\* at least one owner membership.
C26_OwnerRemains == Cardinality(Owners) >= 1

\* Two owners have removed each other: both requests passed the owner count
\* before either committed, and no owner is left.
C26_Witness ==
    /\ resp.op = "remove_member"
    /\ resp.status = 200
    /\ memberships["u1"] = NoMember
    /\ memberships["u2"] = NoMember
    /\ Owners = {}

\* ---- C27

\* C27: after a patch_tenant_role whose payload sets defaultTableCanWrite to
\* true the role's read default is true, whatever defaultTableCanRead the
\* payload carries; and a patch that sets defaultTableCanRead to false on a
\* role whose write default is and stays true leaves the read default true.
C27_PatchKeepsWriteImpliesRead ==
    [][(resp'.op = "update_tenant_role" /\ resp'.status = 200)
       => LET payload == resp'.data.payload
              before == roles[resp'.target]
              after == roles'[resp'.target]
          IN /\ (PatchHas(payload, "defaultTableCanWrite") /\ payload.defaultTableCanWrite)
                   => after.default_table_can_read
             /\ (/\ PatchHas(payload, "defaultTableCanRead")
                 /\ ~payload.defaultTableCanRead
                 /\ before.default_table_can_write
                 /\ after.default_table_can_write)
                   => after.default_table_can_read]_vars

\* The role "qa", read-only before, has been patched with write true and
\* read false, and holds both defaults.
C27_Witness ==
    /\ resp.op = "update_tenant_role"
    /\ resp.target = "qa"
    /\ resp.status = 200
    /\ resp.data.payload = [defaultTableCanRead |-> FALSE, defaultTableCanWrite |-> TRUE]
    /\ ~resp.data.before.default_table_can_write
    /\ roles["qa"].default_table_can_read
    /\ roles["qa"].default_table_can_write

\* ---- C28

\* A stored row that writes also reads.
WriteImpliesRead(row) == row # NoRow => (row.can_write => row.can_read)

\* C28: through the bulk replaces, the role defaults, member creation, role
\* changes, button updates, create_view and the import, every table and view
\* permission row with can_write = true has can_read = true.
C28_WriteImpliesRead ==
    /\ \A t \in DOMAIN tablePerms : \A u \in Users : WriteImpliesRead(tablePerms[t][u])
    /\ \A v \in DOMAIN viewPerms : \A u \in Users : WriteImpliesRead(viewPerms[v][u])

\* A member moved to a role whose stored defaults write without reading
\* holds table and view rows that write and read.
C28_Witness ==
    /\ resp.op \in {"create_member", "update_member_role"}
    /\ resp.status = 200
    /\ \E x \in {"u2", "u3"} :
          /\ memberships[x] # NoMember
          /\ memberships[x].role_key = "qa"
          /\ roles["qa"] # NoRole
          /\ ~roles["qa"].default_table_can_read
          /\ roles["qa"].default_table_can_write
          /\ tablePerms["t1"][x] # NoRow
          /\ tablePerms["t1"][x].can_write
          /\ viewPerms["v1"][x] # NoRow
          /\ viewPerms["v1"][x].can_write

\* ---- C29

\* The tenant that holds the resource an audit row names.
ResourceTenant(resource_type, resource_id) ==
    CASE resource_type = "table" -> TableTenant[resource_id]
      [] resource_type = "view" -> TableTenant[ViewTable[resource_id]]
      [] resource_type = "record" -> TableTenant[RecordTable[resource_id]]
      [] OTHER -> TableTenant[FieldTable[resource_id]]

\* C29: a cross_tenant_access audit row is written only for a resource id
\* that exists in a tenant other than the caller's; a request naming a view
\* of the caller's own tenant writes none.
C29_CrossTenantOnlyForForeign ==
    \A i \in DOMAIN resp.audit :
       resp.audit[i].action = "cross_tenant_access"
          => ResourceTenant(resp.audit[i].resource_type, resp.audit[i].resource_id)
                # CurrentTenant

\* The owner has queried the records of t1 with the viewId of v3, a view of
\* table t2 of the same tenant, and was answered 404.
C29_Witness ==
    /\ resp.op = "query_records"
    /\ resp.user = "u1"
    /\ resp.target = "t1"
    /\ resp.view = "v3"
    /\ resp.status = 404
    /\ "v3" \in views
    /\ TableTenant[ViewTable["v3"]] = CurrentTenant

\* Audit rows of cross_tenant_access that name a table, a record or a field
\* name one of another tenant.
C29_NonViewRowsNameForeign ==
    \A i \in DOMAIN resp.audit :
       (resp.audit[i].action = "cross_tenant_access" /\ resp.audit[i].resource_type # "view")
          => ResourceTenant(resp.audit[i].resource_type, resp.audit[i].resource_id)
                # CurrentTenant

\* ---- C30

\* The row of the member u2 on t1 forbids creating records.
Restricted ==
    tablePerms["t1"]["u2"] # NoRow /\ ~tablePerms["t1"]["u2"].can_create_record

\* C30: once a button update has set a button flag to false for a non-owner
\* on a table, the flag stays false across bulk replaces, apply-role-defaults
\* and role changes, while no button update allows it and the user stays a
\* non-owner: whenever u2 holds a row on t1, the row forbids creating records.
C30_RestrictionPersists ==
    (MembershipMapGet("u2") # "owner" /\ tablePerms["t1"]["u2"] # NoRow)
       => ~tablePerms["t1"]["u2"].can_create_record

\* The owner has replaced the rows of t1 while u2's row forbids the button.
C30_Witness ==
    /\ resp.op = "update_table_permissions"
    /\ resp.status = 200
    /\ Restricted

\* A bulk replace, an apply-role-defaults or a role change that finds a row
\* of u2 and leaves one leaves its button flags as they were.
C30_KeptRowsKeepButtons ==
    [][(/\ resp'.op \in {"update_table_permissions",
                         "apply_table_permissions_role_defaults", "update_member_role"}
        /\ tablePerms["t1"]["u2"] # NoRow
        /\ tablePerms'["t1"]["u2"] # NoRow)
       => \A k \in ButtonKeys : tablePerms'["t1"]["u2"][k] = tablePerms["t1"]["u2"][k]]_vars

====
